---------------------------- MODULE Spec2Model ----------------------------
(***************************************************************************)
(* No-Limit Texas Hold'em engine of pungoyal/poker: cards and deck, hand   *)
(* evaluator, pot ledger, betting state machine, showdown resolver and the *)
(* store operations that drive them (dealNewHand, playerAction,            *)
(* advanceGame, rebuyHero).                                                *)
(***************************************************************************)
EXTENDS Integers, Sequences, FiniteSets, TLC

(***************************************************************************)
(* Generic helpers for the array idioms of the source.                     *)
(***************************************************************************)
Min2(a, b) == IF a <= b THEN a ELSE b

Max2(a, b) == IF a >= b THEN a ELSE b

SetMax(S) == CHOOSE m \in S : \A x \in S : x <= m

RECURSIVE SumSeq(_)
SumSeq(s) == IF s = <<>> THEN 0 ELSE Head(s) + SumSeq(Tail(s))

\* [...set].sort((a, b) => a - b) on numbers
RECURSIVE SortAsc(_)
SortAsc(S) ==
  IF S = {} THEN <<>>
  ELSE LET m == CHOOSE x \in S : \A y \in S : x <= y
       IN <<m>> \o SortAsc(S \ {m})

\* array.sort((a, b) => b - a) on numbers (duplicates kept)
RECURSIVE SortDesc(_)
SortDesc(s) ==
  IF Len(s) <= 1 THEN s
  ELSE LET i == CHOOSE k \in 1..Len(s) : \A j \in 1..Len(s) : s[j] <= s[k]
       IN <<s[i]>> \o SortDesc(SubSeq(s, 1, i - 1) \o SubSeq(s, i + 1, Len(s)))

(***************************************************************************)
(* Cards and deck.                                                         *)
(***************************************************************************)
ALL_SUITS == <<"s", "h", "d", "c">>

ALL_RANKS == <<2, 3, 4, 5, 6, 7, 8, 9, 10, 11, 12, 13, 14>>

Card(r, s) == [rank |-> r, suit |-> s]

createDeck ==
  [i \in 1..(Len(ALL_SUITS) * Len(ALL_RANKS)) |->
     Card(ALL_RANKS[((i - 1) % Len(ALL_RANKS)) + 1],
          ALL_SUITS[((i - 1) \div Len(ALL_RANKS)) + 1])]

\* A permutation of createDeck whose first cards are `prefix`: one outcome of
\* the Fisher-Yates shuffle.
DeckWithPrefix(prefix) ==
  prefix \o SelectSeq(createDeck,
                      LAMBDA c : \A i \in 1..Len(prefix) : prefix[i] # c)

(***************************************************************************)
(* Hand evaluator.                                                         *)
(***************************************************************************)
HighCard == 0
Pair == 1
TwoPair == 2
ThreeOfAKind == 3
Straight == 4
Flush == 5
FullHouse == 6
FourOfAKind == 7
StraightFlush == 8
RoyalFlush == 9

Ace == 14

\* Array.from(rankCounts.entries()).sort((a, b) => b[1] - a[1] || b[0] - a[0]):
\* <<rank, count>> entries by count descending, then rank descending.
RECURSIVE CountsFromKeys(_)
CountsFromKeys(K) ==
  IF K = {} THEN <<>>
  ELSE LET m == SetMax(K)
       IN <<(<<m % 15, m \div 15>>)>> \o CountsFromKeys(K \ {m})

rankCountEntries(ranks) ==
  CountsFromKeys({ Cardinality({j \in 1..Len(ranks) : ranks[j] = ranks[i]}) * 15
                   + ranks[i] : i \in 1..Len(ranks) })

\* evaluateFiveCards ranking the wheel by its ace.
evaluateFiveCardsAceHighWheel(cards) ==
  LET ranks == SortDesc([i \in 1..5 |-> cards[i].rank])
      isFlush == \A i \in 1..5 : cards[i].suit = cards[1].suit
      normal == ranks[1] - ranks[5] = 4 /\ Cardinality({ranks[i] : i \in 1..5}) = 5
      wheel == ~normal /\ ranks = <<Ace, 5, 4, 3, 2>>
      isStraight == normal \/ wheel
      straightHigh == IF normal THEN ranks[1] ELSE IF wheel THEN Ace ELSE 0
      counts == rankCountEntries(ranks)
      res(cat, sub) == [category |-> cat, subRank |-> sub, bestCards |-> cards]
  IN IF isFlush /\ isStraight
       THEN IF straightHigh = Ace THEN res(RoyalFlush, 14)
            ELSE res(StraightFlush, straightHigh)
     ELSE IF counts[1][2] = 4
       THEN res(FourOfAKind, counts[1][1] * 15 + counts[2][1])
     ELSE IF counts[1][2] = 3 /\ counts[2][2] = 2
       THEN res(FullHouse, counts[1][1] * 15 + counts[2][1])
     ELSE IF isFlush
       THEN res(Flush, ranks[1] * 50625 + ranks[2] * 3375 + ranks[3] * 225
                       + ranks[4] * 15 + ranks[5])
     ELSE IF isStraight
       THEN res(Straight, straightHigh)
     ELSE IF counts[1][2] = 3
       THEN LET kickers == SortDesc(<<counts[2][1], counts[3][1]>>)
            IN res(ThreeOfAKind, counts[1][1] * 15 * 15 + kickers[1] * 15 + kickers[2])
     ELSE IF counts[1][2] = 2 /\ counts[2][2] = 2
       THEN res(TwoPair, Max2(counts[1][1], counts[2][1]) * 15 * 15
                         + Min2(counts[1][1], counts[2][1]) * 15 + counts[3][1])
     ELSE IF counts[1][2] = 2
       THEN LET kickers == SortDesc(<<counts[2][1], counts[3][1], counts[4][1]>>)
            IN res(Pair, counts[1][1] * 3375 + kickers[1] * 225
                         + kickers[2] * 15 + kickers[3])
     ELSE res(HighCard, ranks[1] * 50625 + ranks[2] * 3375 + ranks[3] * 225
                        + ranks[4] * 15 + ranks[5])

evaluateFiveCards(cards) ==
  LET ranks == SortDesc([i \in 1..5 |-> cards[i].rank])
      isFlush == \A i \in 1..5 : cards[i].suit = cards[1].suit
      normal == ranks[1] - ranks[5] = 4 /\ Cardinality({ranks[i] : i \in 1..5}) = 5
      wheel == ~normal /\ ranks = <<Ace, 5, 4, 3, 2>>
      isStraight == normal \/ wheel
      straightHigh == IF normal THEN ranks[1] ELSE IF wheel THEN 5 ELSE 0
      counts == rankCountEntries(ranks)
      res(cat, sub) == [category |-> cat, subRank |-> sub, bestCards |-> cards]
  IN IF isFlush /\ isStraight
       THEN IF straightHigh = Ace THEN res(RoyalFlush, 14)
            ELSE res(StraightFlush, straightHigh)
     ELSE IF counts[1][2] = 4
       THEN res(FourOfAKind, counts[1][1] * 15 + counts[2][1])
     ELSE IF counts[1][2] = 3 /\ counts[2][2] = 2
       THEN res(FullHouse, counts[1][1] * 15 + counts[2][1])
     ELSE IF isFlush
       THEN res(Flush, ranks[1] * 50625 + ranks[2] * 3375 + ranks[3] * 225
                       + ranks[4] * 15 + ranks[5])
     ELSE IF isStraight
       THEN res(Straight, straightHigh)
     ELSE IF counts[1][2] = 3
       THEN LET kickers == SortDesc(<<counts[2][1], counts[3][1]>>)
            IN res(ThreeOfAKind, counts[1][1] * 15 * 15 + kickers[1] * 15 + kickers[2])
     ELSE IF counts[1][2] = 2 /\ counts[2][2] = 2
       THEN res(TwoPair, Max2(counts[1][1], counts[2][1]) * 15 * 15
                         + Min2(counts[1][1], counts[2][1]) * 15 + counts[3][1])
     ELSE IF counts[1][2] = 2
       THEN LET kickers == SortDesc(<<counts[2][1], counts[3][1], counts[4][1]>>)
            IN res(Pair, counts[1][1] * 3375 + kickers[1] * 225
                         + kickers[2] * 15 + kickers[3])
     ELSE res(HighCard, ranks[1] * 50625 + ranks[2] * 3375 + ranks[3] * 225
                        + ranks[4] * 15 + ranks[5])

\* toComparableRank with a category weight of 100,000.
toComparableRankNarrow(category, subRank) == 0 - ((category * 100000) + subRank)

toComparableRank(category, subRank) == 0 - ((category * 1000000) + subRank)

\* The index tuples i < j < k < l < m the generator yields, in its order.
RECURSIVE CombosFrom(_, _, _)
CombosFrom(lo, n, k) ==
  IF k = 0 THEN << <<>> >>
  ELSE IF lo > n - k + 1 THEN <<>>
  ELSE LET with == CombosFrom(lo + 1, n, k - 1)
       IN [t \in 1..Len(with) |-> <<lo>> \o with[t]] \o CombosFrom(lo + 1, n, k)

FiveOf == [n \in 5..7 |-> CombosFrom(1, n, 5)]

fiveCardCombinations(cards) ==
  LET idx == FiveOf[Len(cards)]
  IN [t \in 1..Len(idx) |->
        <<cards[idx[t][1]], cards[idx[t][2]], cards[idx[t][3]], cards[idx[t][4]],
          cards[idx[t][5]]>>]

RANK_NAMES ==
  [r \in 2..14 |->
     <<"", "Two", "Three", "Four", "Five", "Six", "Seven", "Eight", "Nine", "Ten",
       "Jack", "Queen", "King", "Ace">>[r]]

pluralRn(r) == IF r = 6 THEN <<"Sixes">> ELSE <<RANK_NAMES[r], "s">>

\* The description string, as the sequence of the pieces the template
\* literals concatenate.
describeHand(category, cards) ==
  LET ranks == SortDesc([i \in 1..Len(cards) |-> cards[i].rank])
      counts == rankCountEntries(ranks)
      isWheel == ranks = <<Ace, 5, 4, 3, 2>>
  IN CASE category = RoyalFlush -> <<"Royal Flush">>
       [] category = StraightFlush ->
            <<"Straight Flush, ", RANK_NAMES[IF isWheel THEN 5 ELSE ranks[1]], "-high">>
       [] category = FourOfAKind -> <<"Four ">> \o pluralRn(counts[1][1])
       [] category = FullHouse ->
            <<"Full House, ">> \o pluralRn(counts[1][1]) \o <<" full of ">>
              \o pluralRn(counts[2][1])
       [] category = Flush -> <<"Flush, ", RANK_NAMES[ranks[1]], "-high">>
       [] category = Straight ->
            <<"Straight, ", RANK_NAMES[IF isWheel THEN 5 ELSE ranks[1]], "-high">>
       [] category = ThreeOfAKind -> <<"Three ">> \o pluralRn(counts[1][1])
       [] category = TwoPair ->
            <<"Two Pair, ">> \o pluralRn(Max2(counts[1][1], counts[2][1]))
              \o <<" and ">> \o pluralRn(Min2(counts[1][1], counts[2][1]))
       [] category = Pair -> <<"Pair of ">> \o pluralRn(counts[1][1])
       [] OTHER -> <<RANK_NAMES[ranks[1]], "-high">>

\* The loop of evaluateHand replacing the best combination only by one of a
\* higher category.
RECURSIVE BestComboByCategory(_, _, _)
BestComboByCategory(combos, t, best) ==
  IF t > Len(combos) THEN best
  ELSE LET keep(result) ==
             IF best.category = -1 \/ result.category > best.category
             THEN result ELSE best
       IN BestComboByCategory(combos, t + 1, keep(evaluateFiveCards(combos[t])))

\* The loop of evaluateHand over the combinations: a later combination
\* replaces the best only when strictly better.
RECURSIVE BestCombo(_, _, _)
BestCombo(combos, t, best) ==
  IF t > Len(combos) THEN best
  ELSE LET keep(result) ==
             IF best.category = -1
                \/ result.category > best.category
                \/ (result.category = best.category /\ result.subRank > best.subRank)
             THEN result ELSE best
       IN BestCombo(combos, t + 1, keep(evaluateFiveCards(combos[t])))

\* evaluateHand giving a result for the cards it has when they are fewer than
\* five.
evaluateHandPartial(cards) ==
  IF Len(cards) < 5
  THEN [threw |-> FALSE, category |-> HighCard, rank |-> 0, cards |-> cards,
        description |-> <<>>]
  ELSE LET pack(result) ==
             [threw |-> FALSE,
              category |-> result.category,
              rank |-> toComparableRank(result.category, result.subRank),
              cards |-> result.bestCards,
              description |-> describeHand(result.category, result.bestCards)]
       IN pack(IF Len(cards) = 5 THEN evaluateFiveCards(cards)
               ELSE BestCombo(fiveCardCombinations(cards), 1,
                              [category |-> -1, subRank |-> 0, bestCards |-> <<>>]))

\* threw = TRUE models the thrown Error; no result fields are produced then.
evaluateHand(cards) ==
  IF Len(cards) < 5 THEN [threw |-> TRUE]
  ELSE LET pack(result) ==
             [threw |-> FALSE,
              category |-> result.category,
              rank |-> toComparableRank(result.category, result.subRank),
              cards |-> result.bestCards,
              description |-> describeHand(result.category, result.bestCards)]
       IN pack(IF Len(cards) = 5 THEN evaluateFiveCards(cards)
               ELSE BestCombo(fiveCardCombinations(cards), 1,
                              [category |-> -1, subRank |-> 0, bestCards |-> <<>>]))

\* compareHands never returning a tie.
compareHandsNoTie(a, b) == IF a.rank <= b.rank THEN 0 - 1 ELSE 1

compareHands(a, b) == a.rank - b.rank

(***************************************************************************)
(* Players and game state.  players is the array of Player records,        *)
(* indexed by seat 0..n-1; holeCards is <<>> for null.  A player's name,   *)
(* table position and AI personality are never read by the engine          *)
(* operations modelled here and are left out.                              *)
(***************************************************************************)
Preflop == "preflop"
Flop == "flop"
Turn == "turn"
River == "river"
Showdown == "showdown"

ActFold == "fold"
ActCheck == "check"
ActCall == "call"
ActBet == "bet"
ActRaise == "raise"
ActAllIn == "all-in"
PostBlind == "post-blind"

NumPlayers(players) == Cardinality(DOMAIN players)

\* The players array as a sequence in seat order.
PlayerList(players) == [i \in 1..NumPlayers(players) |-> players[i - 1]]

createPlayer(id, stack, seatIndex, isHuman) ==
  [id |-> id, stack |-> stack, holeCards |-> <<>>, currentBet |-> 0,
   totalBetThisHand |-> 0, isFolded |-> FALSE, isAllIn |-> FALSE,
   isHuman |-> isHuman, seatIndex |-> seatIndex]

AI_IDS == <<"ai-0", "ai-1", "ai-2", "ai-3", "ai-4", "ai-5", "ai-6", "ai-7">>

(***************************************************************************)
(* Pot ledger.                                                             *)
(***************************************************************************)
Ids(ps) == [i \in 1..Len(ps) |-> ps[i].id]

TotalBets(ps) == SumSeq([i \in 1..Len(ps) |-> ps[i].totalBetThisHand])

\* The loop over levels making a pot of every slice with chips in it, whether
\* or not a player is eligible for it.
RECURSIVE potLevelsOwnPot(_, _, _, _, _)
potLevelsOwnPot(levels, previousLevel, pots, bettingPlayers, nonFolded) ==
  IF levels = <<>> THEN pots
  ELSE LET level == Head(levels)
           potAmount ==
             SumSeq([i \in 1..Len(bettingPlayers) |->
               Max2(0, Min2(bettingPlayers[i].totalBetThisHand, level)
                       - Min2(bettingPlayers[i].totalBetThisHand, previousLevel))])
           eligible == Ids(SelectSeq(nonFolded, LAMBDA p : p.totalBetThisHand >= level))
       IN potLevelsOwnPot(Tail(levels), level,
            IF potAmount > 0
            THEN Append(pots, [amount |-> potAmount, eligiblePlayerIds |-> eligible])
            ELSE pots,
            bettingPlayers, nonFolded)

\* One iteration per level of the loop over levels.
RECURSIVE potLevels(_, _, _, _, _)
potLevels(levels, previousLevel, pots, bettingPlayers, nonFolded) ==
  IF levels = <<>> THEN pots
  ELSE LET level == Head(levels)
           potAmount ==
             SumSeq([i \in 1..Len(bettingPlayers) |->
               Max2(0, Min2(bettingPlayers[i].totalBetThisHand, level)
                       - Min2(bettingPlayers[i].totalBetThisHand, previousLevel))])
           eligible == Ids(SelectSeq(nonFolded, LAMBDA p : p.totalBetThisHand >= level))
           pots2 ==
             IF potAmount > 0 /\ Len(eligible) > 0
               THEN Append(pots, [amount |-> potAmount, eligiblePlayerIds |-> eligible])
             ELSE IF potAmount > 0 /\ Len(pots) > 0
               THEN [pots EXCEPT ![Len(pots)].amount = @ + potAmount]
             ELSE pots
       IN potLevels(Tail(levels), level, pots2, bettingPlayers, nonFolded)

\* calculatePots putting all the chips in one pot for every non-folded player.
calculatePotsSinglePot(players) ==
  LET ps == PlayerList(players)
      nonFolded == SelectSeq(ps, LAMBDA p : ~p.isFolded)
  IN IF TotalBets(ps) = 0 \/ Len(nonFolded) = 0 THEN <<>>
     ELSE <<[amount |-> TotalBets(ps), eligiblePlayerIds |-> Ids(nonFolded)]>>

\* calculatePots counting the contributions of the non-folded players only.
calculatePotsOfContenders(players) ==
  LET nonFolded == SelectSeq(PlayerList(players), LAMBDA p : ~p.isFolded)
  IN IF TotalBets(nonFolded) = 0 THEN <<>>
     ELSE <<[amount |-> TotalBets(nonFolded), eligiblePlayerIds |-> Ids(nonFolded)]>>

\* calculatePots taking an all-in player at the maximum for a side-pot
\* boundary as well.
calculatePotsBoundaryAtMaximum(players) ==
  LET ps == PlayerList(players)
      totalMoney == TotalBets(ps)
      nonFolded == SelectSeq(ps, LAMBDA p : ~p.isFolded)
      maxBet == SetMax({ps[i].totalBetThisHand : i \in 1..Len(ps)})
      shortAllIns == {nonFolded[i].totalBetThisHand : i \in
                        {j \in 1..Len(nonFolded) :
                           nonFolded[j].isAllIn /\ nonFolded[j].totalBetThisHand <= maxBet}}
      single == <<[amount |-> totalMoney, eligiblePlayerIds |-> Ids(nonFolded)]>>
  IN IF totalMoney = 0 THEN <<>>
     ELSE IF Len(nonFolded) = 0 THEN <<>>
     ELSE IF shortAllIns = {} THEN single
     ELSE LET levels == SortAsc(shortAllIns \cup {maxBet})
              bettingPlayers == SelectSeq(ps, LAMBDA p : p.totalBetThisHand > 0)
              pots == potLevels(levels, 0, <<>>, bettingPlayers, nonFolded)
          IN IF Len(pots) > 0 THEN pots ELSE single

calculatePots(players) ==
  LET ps == PlayerList(players)
      totalMoney == TotalBets(ps)
      nonFolded == SelectSeq(ps, LAMBDA p : ~p.isFolded)
      allNonFoldedIds == Ids(nonFolded)
      maxBet == SetMax({ps[i].totalBetThisHand : i \in 1..Len(ps)})
      shortAllIns == {nonFolded[i].totalBetThisHand : i \in
                        {j \in 1..Len(nonFolded) :
                           nonFolded[j].isAllIn /\ nonFolded[j].totalBetThisHand < maxBet}}
      single == <<[amount |-> totalMoney, eligiblePlayerIds |-> allNonFoldedIds]>>
  IN IF totalMoney = 0 THEN <<>>
     ELSE IF Len(allNonFoldedIds) = 0 THEN <<>>
     ELSE IF shortAllIns = {} THEN single
     ELSE LET levels == SortAsc(shortAllIns \cup {maxBet})
              bettingPlayers == SelectSeq(ps, LAMBDA p : p.totalBetThisHand > 0)
              pots == potLevels(levels, 0, <<>>, bettingPlayers, nonFolded)
          IN IF Len(pots) > 0 THEN pots ELSE single

totalPotSize(pots) == SumSeq([i \in 1..Len(pots) |-> pots[i].amount])

(***************************************************************************)
(* Betting: legal actions, action application, turn order.                 *)
(***************************************************************************)
HasPlayer(state, idx) == idx \in DOMAIN state.players

\* getAvailableActions reporting the outstanding bet as the call amount, not
\* capped by the stack.
getAvailableActionsUncapped(state) ==
  LET idx == state.activePlayerIndex
  IN IF ~HasPlayer(state, idx)
        \/ state.players[idx].isFolded \/ state.players[idx].isAllIn
     THEN [canFold |-> FALSE, canCheck |-> FALSE, canCall |-> FALSE, callAmount |-> 0,
           canBet |-> FALSE, canRaise |-> FALSE, minRaise |-> 0, maxRaise |-> 0]
     ELSE LET player == state.players[idx]
              toCall == state.currentBet - player.currentBet
          IN [canFold |-> toCall > 0,
              canCheck |-> toCall = 0,
              canCall |-> toCall > 0,
              callAmount |-> toCall,
              canBet |-> toCall = 0 /\ player.stack > 0,
              canRaise |-> toCall > 0 /\ player.stack > toCall,
              minRaise |-> Min2(state.minRaise, player.stack),
              maxRaise |-> player.stack]

getAvailableActions(state) ==
  LET idx == state.activePlayerIndex
  IN IF ~HasPlayer(state, idx)
        \/ state.players[idx].isFolded \/ state.players[idx].isAllIn
     THEN [canFold |-> FALSE, canCheck |-> FALSE, canCall |-> FALSE, callAmount |-> 0,
           canBet |-> FALSE, canRaise |-> FALSE, minRaise |-> 0, maxRaise |-> 0]
     ELSE LET player == state.players[idx]
              toCall == state.currentBet - player.currentBet
          IN [canFold |-> toCall > 0,
              canCheck |-> toCall = 0,
              canCall |-> toCall > 0,
              callAmount |-> Min2(toCall, player.stack),
              canBet |-> toCall = 0 /\ player.stack > 0,
              canRaise |-> toCall > 0 /\ player.stack > toCall,
              minRaise |-> Min2(state.minRaise, player.stack),
              maxRaise |-> player.stack]

\* Commit that records the bet without taking it from the stack.
CommitKeepingStack(player, chips) ==
  [player EXCEPT !.currentBet = @ + chips,
                 !.totalBetThisHand = @ + chips,
                 !.isAllIn = IF player.stack - chips = 0 THEN TRUE ELSE @]

\* Moves `chips` from the stack to both bets; all-in when the stack reaches 0.
Commit(player, chips) ==
  [player EXCEPT !.stack = @ - chips,
                 !.currentBet = @ + chips,
                 !.totalBetThisHand = @ + chips,
                 !.isAllIn = IF player.stack - chips = 0 THEN TRUE ELSE @]

\* executeAction with an AllIn that sets the minimum raise to its raise.
executeActionAllInSetsMinRaise(state, action, amount) ==
  LET idx == state.activePlayerIndex
      player == state.players[idx]
      record(moved) == [playerId |-> player.id, type |-> action, amount |-> moved,
                        street |-> state.street]
      done(p, bet, minR, moved) ==
        [state EXCEPT !.players[idx] = p, !.currentBet = bet, !.minRaise = minR,
                      !.actions = Append(state.actions, record(moved))]
  IN CASE action = ActFold ->
            done([player EXCEPT !.isFolded = TRUE], state.currentBet, state.minRaise, 0)
       [] action = ActCheck ->
            done(player, state.currentBet, state.minRaise, 0)
       [] action = ActCall ->
            LET toCall == Min2(state.currentBet - player.currentBet, player.stack)
            IN done(Commit(player, toCall), state.currentBet, state.minRaise, toCall)
       [] action = ActBet ->
            LET betAmount == Min2(amount, player.stack)
                p == Commit(player, betAmount)
            IN done(p, p.currentBet, betAmount, betAmount)
       [] action = ActRaise ->
            LET toCall == state.currentBet - player.currentBet
                totalAmount == Min2(amount, player.stack)
                raiseAbove == totalAmount - toCall
                p == Commit(player, totalAmount)
            IN done(p, p.currentBet, Max2(state.minRaise, raiseAbove), totalAmount)
       [] action = ActAllIn ->
            LET allInAmount == player.stack
                p == [player EXCEPT !.currentBet = @ + allInAmount,
                                    !.totalBetThisHand = @ + allInAmount,
                                    !.stack = 0,
                                    !.isAllIn = TRUE]
            IN IF p.currentBet > state.currentBet
               THEN done(p, p.currentBet, p.currentBet - state.currentBet, allInAmount)
               ELSE done(p, state.currentBet, state.minRaise, allInAmount)
       [] OTHER ->
            done(player, state.currentBet, state.minRaise, 0)

\* executeAction logging the requested amount of a Bet or Raise.
executeActionLogsRequest(state, action, amount) ==
  LET idx == state.activePlayerIndex
      player == state.players[idx]
      record(moved) == [playerId |-> player.id, type |-> action, amount |-> moved,
                        street |-> state.street]
      done(p, bet, minR, moved) ==
        [state EXCEPT !.players[idx] = p, !.currentBet = bet, !.minRaise = minR,
                      !.actions = Append(state.actions,
                                        record(IF action \in {ActBet, ActRaise}
                                               THEN amount ELSE moved))]
  IN CASE action = ActFold ->
            done([player EXCEPT !.isFolded = TRUE], state.currentBet, state.minRaise, 0)
       [] action = ActCheck ->
            done(player, state.currentBet, state.minRaise, 0)
       [] action = ActCall ->
            LET toCall == Min2(state.currentBet - player.currentBet, player.stack)
            IN done(Commit(player, toCall), state.currentBet, state.minRaise, toCall)
       [] action = ActBet ->
            LET betAmount == Min2(amount, player.stack)
                p == Commit(player, betAmount)
            IN done(p, p.currentBet, betAmount, betAmount)
       [] action = ActRaise ->
            LET toCall == state.currentBet - player.currentBet
                totalAmount == Min2(amount, player.stack)
                raiseAbove == totalAmount - toCall
                p == Commit(player, totalAmount)
            IN done(p, p.currentBet, Max2(state.minRaise, raiseAbove), totalAmount)
       [] action = ActAllIn ->
            LET allInAmount == player.stack
                p == [player EXCEPT !.currentBet = @ + allInAmount,
                                    !.totalBetThisHand = @ + allInAmount,
                                    !.stack = 0,
                                    !.isAllIn = TRUE]
            IN IF p.currentBet > state.currentBet
               THEN done(p, p.currentBet,
                         Max2(state.minRaise, p.currentBet - state.currentBet), allInAmount)
               ELSE done(p, state.currentBet, state.minRaise, allInAmount)
       [] OTHER ->
            done(player, state.currentBet, state.minRaise, 0)

executeAction(state, action, amount) ==
  LET idx == state.activePlayerIndex
      player == state.players[idx]
      record(moved) == [playerId |-> player.id, type |-> action, amount |-> moved,
                        street |-> state.street]
      done(p, bet, minR, moved) ==
        [state EXCEPT !.players[idx] = p, !.currentBet = bet, !.minRaise = minR,
                      !.actions = Append(state.actions, record(moved))]
  IN CASE action = ActFold ->
            done([player EXCEPT !.isFolded = TRUE], state.currentBet, state.minRaise, 0)
       [] action = ActCheck ->
            done(player, state.currentBet, state.minRaise, 0)
       [] action = ActCall ->
            LET toCall == Min2(state.currentBet - player.currentBet, player.stack)
            IN done(Commit(player, toCall), state.currentBet, state.minRaise, toCall)
       [] action = ActBet ->
            LET betAmount == Min2(amount, player.stack)
                p == Commit(player, betAmount)
            IN done(p, p.currentBet, betAmount, betAmount)
       [] action = ActRaise ->
            LET toCall == state.currentBet - player.currentBet
                totalAmount == Min2(amount, player.stack)
                raiseAbove == totalAmount - toCall
                p == Commit(player, totalAmount)
            IN done(p, p.currentBet, Max2(state.minRaise, raiseAbove), totalAmount)
       [] action = ActAllIn ->
            LET allInAmount == player.stack
                p == [player EXCEPT !.currentBet = @ + allInAmount,
                                    !.totalBetThisHand = @ + allInAmount,
                                    !.stack = 0,
                                    !.isAllIn = TRUE]
            IN IF p.currentBet > state.currentBet
               THEN done(p, p.currentBet,
                         Max2(state.minRaise, p.currentBet - state.currentBet), allInAmount)
               ELSE done(p, state.currentBet, state.minRaise, allInAmount)
       [] OTHER ->
            done(player, state.currentBet, state.minRaise, 0)

countActivePlayers(state) ==
  Cardinality({i \in DOMAIN state.players :
                 ~state.players[i].isFolded /\ ~state.players[i].isAllIn})

countNonFoldedPlayers(state) ==
  Cardinality({i \in DOMAIN state.players : ~state.players[i].isFolded})

\* The first seat among idx, idx+1, ... (wrapping, n attempts) that is neither
\* folded nor all-in; -1 when there is none.
RECURSIVE ScanActive(_, _, _)
ScanActive(players, idx, attempts) ==
  IF attempts >= NumPlayers(players) THEN -1
  ELSE IF ~players[idx].isFolded /\ ~players[idx].isAllIn THEN idx
  ELSE ScanActive(players, (idx + 1) % NumPlayers(players), attempts + 1)

\* nextActivePlayerIndex taking the next seat whatever its player's flags.
nextSeatIndex(state, fromIndex) == (fromIndex + 1) % NumPlayers(state.players)

nextActivePlayerIndex(state, fromIndex) ==
  ScanActive(state.players, (fromIndex + 1) % NumPlayers(state.players), 0)

(***************************************************************************)
(* Showdown resolver.                                                      *)
(***************************************************************************)
\* The playerHands map, as its entries in insertion order: the loop over
\* players skips the folded ones and those without hole cards, evaluates the
\* others, and a set on an id already present replaces that entry's value.
RECURSIVE playerHandsOf(_, _, _, _)
playerHandsOf(players, communityCards, i, hands) ==
  IF i >= NumPlayers(players) THEN hands
  ELSE LET p == players[i]
           at == {k \in 1..Len(hands) : hands[k].playerId = p.id}
           set(result) ==
             IF at # {}
             THEN [k \in 1..Len(hands) |->
                     IF k \in at THEN [playerId |-> p.id, result |-> result]
                     ELSE hands[k]]
             ELSE Append(hands, [playerId |-> p.id, result |-> result])
       IN IF p.isFolded \/ p.holeCards = <<>>
             \/ Len(p.holeCards \o communityCards) < 5
          THEN playerHandsOf(players, communityCards, i + 1, hands)
          ELSE playerHandsOf(players, communityCards, i + 1,
                             set(evaluateHand(p.holeCards \o communityCards)))

hasHand(playerHands, id) == \E k \in 1..Len(playerHands) : playerHands[k].playerId = id

getHand(playerHands, id) ==
  playerHands[CHOOSE k \in 1..Len(playerHands) : playerHands[k].playerId = id].result

\* The inner loop over potWinners giving every winner the share only.
RECURSIVE creditShares(_, _, _, _, _)
creditShares(winners, potWinners, i, share, remainder) ==
  IF i > Len(potWinners) THEN winners
  ELSE LET pid == potWinners[i].playerId
           at == {k \in 1..Len(winners) : winners[k].playerId = pid}
           w2 == IF at # {}
                 THEN [winners EXCEPT ![CHOOSE k \in at : \A m \in at : k <= m].amount
                                         = @ + share]
                 ELSE Append(winners, [playerId |-> pid, amount |-> share,
                                       hand |-> potWinners[i].result.description])
       IN creditShares(w2, potWinners, i + 1, share, remainder)

\* The inner loop over potWinners giving the remainder to the last winner.
RECURSIVE creditWinnersRemainderLast(_, _, _, _, _)
creditWinnersRemainderLast(winners, potWinners, i, share, remainder) ==
  IF i > Len(potWinners) THEN winners
  ELSE LET amount == share + (IF i = Len(potWinners) THEN remainder ELSE 0)
           pid == potWinners[i].playerId
           at == {k \in 1..Len(winners) : winners[k].playerId = pid}
           w2 == IF at # {}
                 THEN [winners EXCEPT ![CHOOSE k \in at : \A m \in at : k <= m].amount
                                         = @ + amount]
                 ELSE Append(winners, [playerId |-> pid, amount |-> amount,
                                       hand |-> potWinners[i].result.description])
       IN creditWinnersRemainderLast(w2, potWinners, i + 1, share, remainder)

\* The inner loop over potWinners: add to the player's entry or append one.
RECURSIVE creditWinners(_, _, _, _, _)
creditWinners(winners, potWinners, i, share, remainder) ==
  IF i > Len(potWinners) THEN winners
  ELSE LET amount == share + (IF i = 1 THEN remainder ELSE 0)
           pid == potWinners[i].playerId
           at == {k \in 1..Len(winners) : winners[k].playerId = pid}
           w2 == IF at # {}
                 THEN [winners EXCEPT ![CHOOSE k \in at : \A m \in at : k <= m].amount
                                         = @ + amount]
                 ELSE Append(winners, [playerId |-> pid, amount |-> amount,
                                       hand |-> potWinners[i].result.description])
       IN creditWinners(w2, potWinners, i + 1, share, remainder)

\* The loop over pots.  eligibleHands.sort is stable, so the hands tied for
\* the best rank keep the order of the pot's eligiblePlayerIds.
RECURSIVE resolvePots(_, _, _)
resolvePots(pots, playerHands, winners) ==
  IF pots = <<>> THEN winners
  ELSE LET pot == Head(pots)
           ids == SelectSeq(pot.eligiblePlayerIds, LAMBDA id : hasHand(playerHands, id))
           eligibleHands == [i \in 1..Len(ids) |->
                               [playerId |-> ids[i], result |-> getHand(playerHands, ids[i])]]
       IN IF Len(eligibleHands) = 0 THEN resolvePots(Tail(pots), playerHands, winners)
          ELSE LET bestRank == CHOOSE r \in {eligibleHands[i].result.rank :
                                               i \in 1..Len(eligibleHands)} :
                                 \A i \in 1..Len(eligibleHands) :
                                   compareHands([rank |-> r], eligibleHands[i].result) <= 0
                   potWinners == SelectSeq(eligibleHands,
                                           LAMBDA h : h.result.rank = bestRank)
                   share == pot.amount \div Len(potWinners)
                   remainder == pot.amount - share * Len(potWinners)
               IN resolvePots(Tail(pots), playerHands,
                              creditWinners(winners, potWinners, 1, share, remainder))

resolveShowdown(players, communityCards, pots) ==
  [winners |-> resolvePots(pots, playerHandsOf(players, communityCards, 0, <<>>), <<>>)]

\* resolveByFold awarding the pots to the player of the first seat, folded or
\* not.
resolveByFoldFirstSeat(players, pots) ==
  [winners |-> <<[playerId |-> players[0].id, amount |-> totalPotSize(pots),
                  hand |-> <<"Everyone folded">>]>>]

resolveByFold(players, pots) ==
  LET nf == {i \in DOMAIN players : ~players[i].isFolded}
  IN IF nf = {} THEN [winners |-> <<>>]
     ELSE LET winner == players[CHOOSE i \in nf : \A j \in nf : i <= j]
          IN [winners |-> <<[playerId |-> winner.id, amount |-> totalPotSize(pots),
                             hand |-> <<"Everyone folded">>]>>]

(***************************************************************************)
(* Dealer: new hand, street advancement, round completion, hand completion.*)
(***************************************************************************)
createInitialGameState(settings) ==
  [handNumber |-> 0,
   street |-> Preflop,
   deck |-> <<>>,
   communityCards |-> <<>>,
   pots |-> <<>>,
   currentBet |-> 0,
   minRaise |-> settings.bigBlind,
   players |-> [i \in 0..settings.numOpponents |->
                  IF i = 0 THEN createPlayer("hero", settings.startingStack, 0, TRUE)
                  ELSE createPlayer(AI_IDS[i], settings.startingStack, i, FALSE)],
   dealerIndex |-> 0,
   activePlayerIndex |-> 0,
   actions |-> <<>>,
   isHandComplete |-> TRUE,
   winners |-> <<>>]

RECURSIVE ScanNonBusted(_, _, _, _)
ScanNonBusted(players, idx, i, fallback) ==
  IF i >= NumPlayers(players) THEN fallback
  ELSE IF players[idx].stack > 0 \/ ~players[idx].isFolded THEN idx
  ELSE ScanNonBusted(players, (idx + 1) % NumPlayers(players), i + 1, fallback)

nextNonBustedIndex(players, fromIndex) ==
  ScanNonBusted(players, fromIndex % NumPlayers(players), 0,
                fromIndex % NumPlayers(players))

\* findNextActiveFromIndex taking the seat it starts from, whoever sits there.
findSeatFromIndex(state, startIndex) ==
  startIndex % NumPlayers(state.players)

findNextActiveFromIndex(state, startIndex) ==
  ScanActive(state.players, startIndex, 0)

\* Math.round of a non-negative number given in tenths.
RoundTenths(x10) == (x10 + 5) \div 10

\* The ante loop logging each ante as a Bet record.
RECURSIVE postAntesAsBets(_, _, _)
postAntesAsBets(st, seats, anteAmountRaw) ==
  IF seats = <<>> THEN st
  ELSE LET i == Head(seats)
           p == st.players[i]
           ante == Min2(anteAmountRaw, p.stack)
       IN IF ante <= 0 THEN postAntesAsBets(st, Tail(seats), anteAmountRaw)
          ELSE postAntesAsBets(
                 [players |-> [st.players EXCEPT ![i] = Commit(p, ante)],
                  actions |-> Append(st.actions,
                                [playerId |-> p.id, type |-> ActBet, amount |-> ante,
                                 street |-> Preflop])],
                 Tail(seats), anteAmountRaw)

\* The ante loop over activePlayers (the non-folded players, in seat order):
\* st carries the players and the action log.
RECURSIVE postAntes(_, _, _)
postAntes(st, seats, anteAmountRaw) ==
  IF seats = <<>> THEN st
  ELSE LET i == Head(seats)
           p == st.players[i]
           ante == Min2(anteAmountRaw, p.stack)
       IN IF ante <= 0 THEN postAntes(st, Tail(seats), anteAmountRaw)
          ELSE postAntes(
                 [players |-> [st.players EXCEPT ![i] = Commit(p, ante)],
                  actions |-> Append(st.actions,
                                [playerId |-> p.id, type |-> PostBlind, amount |-> ante,
                                 street |-> Preflop])],
                 Tail(seats), anteAmountRaw)

\* A blind post of the nominal amount, whatever the stack.
postBlindUncapped(player, nominal) ==
  [player EXCEPT !.stack = @ - nominal,
                 !.currentBet = nominal,
                 !.totalBetThisHand = nominal,
                 !.isAllIn = IF player.stack - nominal = 0 THEN TRUE ELSE @]

\* A blind post: the stack pays min(nominal, stack); the current-street and
\* the cumulative bet are SET to the amount paid.
postBlind(player, nominal) ==
  LET paid == Min2(nominal, player.stack)
  IN [player EXCEPT !.stack = @ - paid,
                    !.currentBet = paid,
                    !.totalBetThisHand = paid,
                    !.isAllIn = IF player.stack - paid = 0 THEN TRUE ELSE @]

\* The hole-card loop: every non-folded player, in seat order, takes the next
\* two cards of the deck.
dealHoleCards(players, deck) ==
  [i \in DOMAIN players |->
     IF players[i].isFolded THEN players[i]
     ELSE LET k == 2 * Cardinality({j \in DOMAIN players : j < i /\ ~players[j].isFolded})
          IN [players[i] EXCEPT !.holeCards = <<deck[k + 1], deck[k + 2]>>]]

\* shuffled is the outcome of createShuffledDeck().
startNewHand(state, settings, shuffled) ==
  LET n == NumPlayers(state.players)
      preparedPlayers ==
        [i \in DOMAIN state.players |->
           LET p == state.players[i]
           IN IF ~p.isHuman /\ settings.gameMode = "cash" /\ p.stack <= 0
              THEN [p EXCEPT !.stack = settings.startingStack,
                             !.isFolded = FALSE, !.isAllIn = FALSE]
              ELSE p]
      reset ==
        [i \in DOMAIN state.players |->
           [preparedPlayers[i] EXCEPT !.holeCards = <<>>, !.currentBet = 0,
                                      !.totalBetThisHand = 0,
                                      !.isFolded = (preparedPlayers[i].stack <= 0),
                                      !.isAllIn = FALSE]]
      rawDealer == (state.dealerIndex + 1) % n
      dealerIndex == nextNonBustedIndex(reset, rawDealer)
      seats == SelectSeq([k \in 1..n |-> k - 1], LAMBDA i : ~reset[i].isFolded)
      anted ==
        IF settings.gameMode = "tournament" /\ settings.anteEnabled
           /\ settings.anteBbTenths > 0
        THEN postAntes([players |-> reset, actions |-> <<>>], seats,
                       Max2(1, RoundTenths(settings.bigBlind * settings.anteBbTenths)))
        ELSE [players |-> reset, actions |-> <<>>]
      sbIndex == nextNonBustedIndex(anted.players, (dealerIndex + 1) % n)
      bbIndex == nextNonBustedIndex(anted.players, (sbIndex + 1) % n)
      withSb == [anted.players EXCEPT ![sbIndex] = postBlind(@, settings.smallBlind)]
      withBb == [withSb EXCEPT ![bbIndex] = postBlind(@, settings.bigBlind)]
      sbAmount == withSb[sbIndex].currentBet
      bbAmount == withBb[bbIndex].currentBet
      actions == anted.actions \o
        <<[playerId |-> withBb[sbIndex].id, type |-> PostBlind, amount |-> sbAmount,
           street |-> Preflop],
          [playerId |-> withBb[bbIndex].id, type |-> PostBlind, amount |-> bbAmount,
           street |-> Preflop]>>
      dealt == dealHoleCards(withBb, shuffled)
      deckIdx == 2 * Cardinality({j \in DOMAIN dealt : ~dealt[j].isFolded})
      newState ==
        [handNumber |-> state.handNumber + 1,
         street |-> Preflop,
         deck |-> SubSeq(shuffled, deckIdx + 1, Len(shuffled)),
         communityCards |-> <<>>,
         pots |-> calculatePots(dealt),
         currentBet |-> settings.bigBlind,
         minRaise |-> settings.bigBlind,
         players |-> dealt,
         dealerIndex |-> dealerIndex,
         activePlayerIndex |-> 0,
         actions |-> actions,
         isHandComplete |-> FALSE,
         winners |-> <<>>]
  IN [newState EXCEPT !.activePlayerIndex =
        findNextActiveFromIndex(newState, (bbIndex + 1) % n)]

\* deck.slice(k) that drops nothing.
SliceNothing(deck, k) == deck

\* deck.slice(k)
Slice(deck, k) == SubSeq(deck, k + 1, Len(deck))

\* advanceStreet going from the flop straight to the river with one card.
advanceStreetPastTurn(state, bigBlind) ==
  LET players == [i \in DOMAIN state.players |->
                    [state.players[i] EXCEPT !.currentBet = 0]]
      base == [state EXCEPT !.players = players, !.currentBet = 0,
                            !.minRaise = bigBlind]
      burned == Slice(state.deck, 1)
      dealt ==
        CASE state.street = Preflop ->
               [base EXCEPT !.communityCards = @ \o SubSeq(burned, 1, 3),
                            !.deck = Slice(burned, 3), !.street = Flop]
          [] state.street \in {Flop, Turn} ->
               [base EXCEPT !.communityCards = @ \o SubSeq(burned, 1, 1),
                            !.deck = Slice(burned, 1), !.street = River]
          [] state.street = River ->
               [base EXCEPT !.street = Showdown]
          [] OTHER -> base
      potted == [dealt EXCEPT !.pots = calculatePots(dealt.players)]
  IN IF potted.street # Showdown
     THEN [potted EXCEPT !.activePlayerIndex =
             findNextActiveFromIndex(potted,
               (potted.dealerIndex + 1) % NumPlayers(potted.players))]
     ELSE potted

\* advanceStreet dealing from the front of the deck without a burn.
advanceStreetWithoutBurn(state, bigBlind) ==
  LET players == [i \in DOMAIN state.players |->
                    [state.players[i] EXCEPT !.currentBet = 0]]
      base == [state EXCEPT !.players = players, !.currentBet = 0,
                            !.minRaise = bigBlind]
      burned == state.deck
      dealt ==
        CASE state.street = Preflop ->
               [base EXCEPT !.communityCards = @ \o SubSeq(burned, 1, 3),
                            !.deck = Slice(burned, 3), !.street = Flop]
          [] state.street = Flop ->
               [base EXCEPT !.communityCards = @ \o SubSeq(burned, 1, 1),
                            !.deck = Slice(burned, 1), !.street = Turn]
          [] state.street = Turn ->
               [base EXCEPT !.communityCards = @ \o SubSeq(burned, 1, 1),
                            !.deck = Slice(burned, 1), !.street = River]
          [] state.street = River ->
               [base EXCEPT !.street = Showdown]
          [] OTHER -> base
      potted == [dealt EXCEPT !.pots = calculatePots(dealt.players)]
  IN IF potted.street # Showdown
     THEN [potted EXCEPT !.activePlayerIndex =
             findNextActiveFromIndex(potted,
               (potted.dealerIndex + 1) % NumPlayers(potted.players))]
     ELSE potted

advanceStreet(state, bigBlind) ==
  LET players == [i \in DOMAIN state.players |->
                    [state.players[i] EXCEPT !.currentBet = 0]]
      base == [state EXCEPT !.players = players, !.currentBet = 0,
                            !.minRaise = bigBlind]
      burned == Slice(state.deck, 1)
      dealt ==
        CASE state.street = Preflop ->
               [base EXCEPT !.communityCards = @ \o SubSeq(burned, 1, 3),
                            !.deck = Slice(burned, 3), !.street = Flop]
          [] state.street = Flop ->
               [base EXCEPT !.communityCards = @ \o SubSeq(burned, 1, 1),
                            !.deck = Slice(burned, 1), !.street = Turn]
          [] state.street = Turn ->
               [base EXCEPT !.communityCards = @ \o SubSeq(burned, 1, 1),
                            !.deck = Slice(burned, 1), !.street = River]
          [] state.street = River ->
               [base EXCEPT !.street = Showdown]
          [] OTHER -> base
      potted == [dealt EXCEPT !.pots = calculatePots(dealt.players)]
  IN IF potted.street # Showdown
     THEN [potted EXCEPT !.activePlayerIndex =
             findNextActiveFromIndex(potted,
               (potted.dealerIndex + 1) % NumPlayers(potted.players))]
     ELSE potted

\* streetActionsOf counting the player's actions of every street.
handActionsOf(state, player) ==
  SelectSeq(state.actions, LAMBDA a : a.playerId = player.id /\ a.type # PostBlind)

\* The player's logged actions on the current street other than blind posts.
streetActionsOf(state, player) ==
  SelectSeq(state.actions,
            LAMBDA a : a.street = state.street /\ a.playerId = player.id
                       /\ a.type # PostBlind)

\* isBettingRoundComplete asking only that the bets are matched.
isBetMatched(state) ==
  \A i \in DOMAIN state.players :
    (~state.players[i].isFolded /\ ~state.players[i].isAllIn)
      => state.players[i].currentBet >= state.currentBet

isBettingRoundComplete(state) ==
  LET nonFolded == SelectSeq(PlayerList(state.players), LAMBDA p : ~p.isFolded)
      active == SelectSeq(nonFolded, LAMBDA p : ~p.isAllIn)
  IN IF Len(nonFolded) <= 1 THEN TRUE
     ELSE IF Len(active) = 0 THEN TRUE
     ELSE IF Len(active) = 1
       THEN LET player == active[1]
                streetActions == streetActionsOf(state, player)
            IN IF player.currentBet >= state.currentBet /\ Len(streetActions) > 0
                 THEN TRUE
               ELSE IF Len(streetActions) = 0 THEN FALSE
               ELSE player.currentBet >= state.currentBet
     ELSE \A i \in 1..Len(active) :
            /\ Len(streetActionsOf(state, active[i])) # 0
            /\ ~(active[i].currentBet < state.currentBet)

\* The run-out loop of completeHand: burn one card, deal one card, until the
\* board holds five.
RECURSIVE runOut(_)
runOut(bd) ==
  IF Len(bd.communityCards) >= 5 THEN bd
  ELSE LET burned == Slice(bd.deck, 1)
       IN runOut([communityCards |-> bd.communityCards \o SubSeq(burned, 1, 1),
                  deck |-> Slice(burned, 1)])

\* The award loop: each winners entry is added to the stack of the first
\* player with that id.
RECURSIVE awardWinnings(_, _)
awardWinnings(players, winners) ==
  IF winners = <<>> THEN players
  ELSE LET w == Head(winners)
           at == {i \in DOMAIN players : players[i].id = w.playerId}
       IN awardWinnings(
            IF at = {} THEN players
            ELSE [players EXCEPT ![CHOOSE i \in at : \A j \in at : i <= j].stack
                                    = @ + w.amount],
            Tail(winners))

completeHand(state) ==
  LET pots == calculatePots(state.players)
      withPots == [state EXCEPT !.pots = pots]
      nonFolded == countNonFoldedPlayers(state)
  IN IF nonFolded = 1
     THEN LET result == resolveByFold(state.players, pots)
          IN [withPots EXCEPT !.players = awardWinnings(state.players, result.winners),
                              !.winners = result.winners,
                              !.isHandComplete = TRUE]
     ELSE LET bd == runOut([communityCards |-> state.communityCards,
                            deck |-> state.deck])
              result == resolveShowdown(state.players, bd.communityCards, pots)
          IN [withPots EXCEPT !.communityCards = bd.communityCards,
                              !.deck = bd.deck,
                              !.street = Showdown,
                              !.players = awardWinnings(state.players, result.winners),
                              !.winners = result.winners,
                              !.isHandComplete = TRUE]

(***************************************************************************)
(* Store operations (the driver layer).                                    *)
(***************************************************************************)
\* The settings change made by dealNewHand before the hand is started.
nextSettingsOf(g, settings) ==
  IF settings.gameMode = "tournament" /\ g.handNumber > 0
     /\ g.handNumber % settings.blindIncreaseEveryHands = 0
  THEN [settings EXCEPT
          !.smallBlind = Max2(1, RoundTenths(settings.smallBlind
                                             * settings.blindIncreaseFactorTenths)),
          !.bigBlind = Max2(2, RoundTenths(settings.bigBlind
                                           * settings.blindIncreaseFactorTenths))]
  ELSE settings

dealNewHand(g, settings, shuffled) ==
  startNewHand(g, nextSettingsOf(g, settings), shuffled)

\* clamp without the lower bound.
clampToMax(v, min, max) == Min2(v, max)

clamp(v, min, max) == Max2(min, Min2(v, max))

\* playerAction passing a Bet on to executeAction whether or not a bet is
\* offered.
playerActionBetUnchecked(g, action, amount) ==
  LET available == getAvailableActions(g)
      idx == g.activePlayerIndex
      minBet == Max2(available.minRaise, 1)
      minTotal == available.callAmount + Max2(available.minRaise, 1)
      dropped == [ok |-> FALSE, action |-> action, amount |-> amount]
      as(a, m) == [ok |-> TRUE, action |-> a, amount |-> m]
      norm ==
        CASE action = ActFold /\ ~available.canFold ->
               IF available.canCheck THEN as(ActCheck, 0) ELSE dropped
          [] action = ActCheck /\ ~available.canCheck ->
               IF available.canCall THEN as(ActCall, available.callAmount) ELSE dropped
          [] action = ActCall ->
               IF ~available.canCall
               THEN IF available.canCheck THEN as(ActCheck, 0) ELSE dropped
               ELSE as(ActCall, available.callAmount)
          [] action = ActBet ->
               as(ActBet, clamp(IF amount # 0 THEN amount ELSE minBet,
                                minBet, available.maxRaise))
          [] action = ActRaise ->
               IF ~available.canRaise THEN dropped
               ELSE as(ActRaise, clamp(IF amount # 0 THEN amount ELSE minTotal,
                                       minTotal, available.maxRaise))
          [] action = ActAllIn /\ g.players[idx].stack <= 0 -> dropped
          [] OTHER -> as(action, amount)
  IN IF g.isHandComplete THEN g
     ELSE IF ~HasPlayer(g, idx) THEN g
     ELSE IF ~norm.ok THEN g
     ELSE LET executed == executeAction(g, norm.action, norm.amount)
              newGame == [executed EXCEPT !.pots = calculatePots(executed.players)]
          IN [newGame EXCEPT !.activePlayerIndex =
                nextActivePlayerIndex(newGame, newGame.activePlayerIndex)]

\* The game after playerAction(action, amount); the game itself when the
\* request is dropped by one of the early returns.
playerAction(g, action, amount) ==
  LET available == getAvailableActions(g)
      idx == g.activePlayerIndex
      minBet == Max2(available.minRaise, 1)
      minTotal == available.callAmount + Max2(available.minRaise, 1)
      dropped == [ok |-> FALSE, action |-> action, amount |-> amount]
      as(a, m) == [ok |-> TRUE, action |-> a, amount |-> m]
      norm ==
        CASE action = ActFold /\ ~available.canFold ->
               IF available.canCheck THEN as(ActCheck, 0) ELSE dropped
          [] action = ActCheck /\ ~available.canCheck ->
               IF available.canCall THEN as(ActCall, available.callAmount) ELSE dropped
          [] action = ActCall ->
               IF ~available.canCall
               THEN IF available.canCheck THEN as(ActCheck, 0) ELSE dropped
               ELSE as(ActCall, available.callAmount)
          [] action = ActBet ->
               IF ~available.canBet THEN dropped
               ELSE as(ActBet, clamp(IF amount # 0 THEN amount ELSE minBet,
                                     minBet, available.maxRaise))
          [] action = ActRaise ->
               IF ~available.canRaise THEN dropped
               ELSE as(ActRaise, clamp(IF amount # 0 THEN amount ELSE minTotal,
                                       minTotal, available.maxRaise))
          [] action = ActAllIn /\ g.players[idx].stack <= 0 -> dropped
          [] OTHER -> as(action, amount)
  IN IF g.isHandComplete THEN g
     ELSE IF ~HasPlayer(g, idx) THEN g
     ELSE IF ~norm.ok THEN g
     ELSE LET executed == executeAction(g, norm.action, norm.amount)
              newGame == [executed EXCEPT !.pots = calculatePots(executed.players)]
          IN [newGame EXCEPT !.activePlayerIndex =
                nextActivePlayerIndex(newGame, newGame.activePlayerIndex)]

advanceGameNoRunOut(g, settings) ==
  IF countNonFoldedPlayers(g) <= 1 THEN completeHand(g)
  ELSE IF isBettingRoundComplete(g)
    THEN IF countActivePlayers(g) <= 1 THEN g
         ELSE IF g.street = River THEN completeHand(g)
         ELSE advanceStreet(g, settings.bigBlind)
  ELSE g

advanceGame(g, settings) ==
  IF countNonFoldedPlayers(g) <= 1 THEN completeHand(g)
  ELSE IF isBettingRoundComplete(g)
    THEN IF countActivePlayers(g) <= 1 THEN completeHand(g)
         ELSE IF g.street = River THEN completeHand(g)
         ELSE advanceStreet(g, settings.bigBlind)
  ELSE g

rebuyHero(g, settings) ==
  [g EXCEPT !.players =
     [i \in DOMAIN g.players |->
        IF g.players[i].isHuman
        THEN [g.players[i] EXCEPT !.stack = settings.startingStack,
                                  !.isFolded = FALSE, !.isAllIn = FALSE]
        ELSE g.players[i]]]

\* useGameFlow: no further hand is dealt once a tournament has one player
\* with chips left.
isTournamentComplete(g, settings) ==
  /\ settings.gameMode = "tournament"
  /\ Cardinality({i \in DOMAIN g.players : g.players[i].stack > 0}) <= 1
  /\ g.isHandComplete

(***************************************************************************)
(* Bounds and the inputs enumerated.                                       *)
(***************************************************************************)
\* Hands dealt in one session.
MaxHands == 2

\* Requested bet and raise amounts are 0..MaxAmount.
MaxAmount == 3

\* Chips each player starts the session with.
StartingStack == 4

BaseSettings ==
  [startingStack |-> StartingStack, smallBlind |-> 1, bigBlind |-> 2,
   numOpponents |-> 2, gameMode |-> "cash", blindIncreaseEveryHands |-> 1,
   blindIncreaseFactorTenths |-> 15, anteEnabled |-> TRUE, anteBbTenths |-> 1,
   gameSpeed |-> "normal"]

SettingsChoices ==
  { BaseSettings,
    [BaseSettings EXCEPT !.gameMode = "tournament"],
    [BaseSettings EXCEPT !.gameMode = "tournament", !.anteEnabled = FALSE] }

\* Outcomes of the shuffle.  At a full table the board is all low spades.
\* With the first deck seat 2 has the ace-high flush, seat 1 the king-high
\* flush and seat 0 plays the board; with the second every player plays the
\* board.
ShuffledDecks ==
  { DeckWithPrefix(<<Card(12, "h"), Card(12, "d"), Card(13, "s"), Card(13, "d"),
                     Card(14, "s"), Card(14, "h")>>),
    DeckWithPrefix(<<Card(2, "h"), Card(3, "d"), Card(2, "d"), Card(3, "c"),
                     Card(2, "c"), Card(3, "h")>>) }

ActionKinds == {ActFold, ActCheck, ActCall, ActBet, ActRaise, ActAllIn}

(***************************************************************************)
(* The state machine.  game and settings are the store's fields;           *)
(* chipsAtHandStart records the sum of the stacks with which the current   *)
(* hand was started, before any forced bet was posted; returned holds the  *)
(* value of the last engine function applied on its own (NoReturn in the   *)
(* game state machine, where every result is stored in game); flow holds   *)
(* the store fields beside game that useGameFlow reads and advanceGame      *)
(* writes: queuedAction, the hero's pre-action; handsPlayed of              *)
(* sessionStats; handHistory, as the hand numbers of its entries;           *)
(* modulesLoaded, whether the modules the AI timer callback imports have    *)
(* been loaded; aiInFlight, the AI timer callbacks that wait for them.      *)
(***************************************************************************)
VARIABLES game, settings, chipsAtHandStart, returned, flow

vars == <<game, settings, chipsAtHandStart, returned, flow>>

NoReturn == [op |-> "none"]

NoFlow ==
  [queuedAction |-> "none", handsPlayed |-> 0, handHistory |-> <<>>,
   modulesLoaded |-> TRUE, aiInFlight |-> <<>>]

Stacks(players) == SumSeq([i \in 1..NumPlayers(players) |-> players[i - 1].stack])

CurrentBets(players) ==
  SumSeq([i \in 1..NumPlayers(players) |-> players[i - 1].currentBet])

\* The stacks startNewHand starts from: busted AI players are re-staked in
\* cash mode before anything is posted.
StartingChips(g, s) ==
  SumSeq([i \in 1..NumPlayers(g.players) |->
            LET p == g.players[i - 1]
            IN IF ~p.isHuman /\ s.gameMode = "cash" /\ p.stack <= 0
               THEN s.startingStack ELSE p.stack])

\* Whether the store's advanceGame takes a branch that calls finalizeHand.
finalizes(g) ==
  \/ countNonFoldedPlayers(g) <= 1
  \/ /\ isBettingRoundComplete(g)
     /\ countActivePlayers(g) <= 1 \/ g.street = River

\* finalizeHand: one more hand played and one more entry of the history.
finalizeHand(f, completed) ==
  [f EXCEPT !.handsPlayed = @ + 1,
            !.handHistory = Append(@, completed.handNumber)]

\* The store fields beside game after advanceGame().
advanceFlow(g, f) == IF finalizes(g) THEN finalizeHand(f, completeHand(g)) ELSE f

Init ==
  /\ settings \in SettingsChoices
  /\ game = createInitialGameState(settings)
  /\ chipsAtHandStart = 0
  /\ returned = NoReturn
  /\ flow = NoFlow

\* startGame, the Deal button, the D key and the auto-deal timer.
DealNewHand ==
  /\ game.isHandComplete
  /\ ~isTournamentComplete(game, settings)
  /\ game.handNumber < MaxHands
  /\ \E shuffled \in ShuffledDecks :
       game' = dealNewHand(game, settings, shuffled)
  /\ settings' = nextSettingsOf(game, settings)
  /\ chipsAtHandStart' = StartingChips(game, settings)
  /\ UNCHANGED <<returned, flow>>

\* The Rebuy button: rebuyHero(); dealNewHand().
RebuyAndDeal ==
  /\ game.isHandComplete
  /\ game.handNumber > 0
  /\ game.handNumber < MaxHands
  /\ game.players[0].stack <= 0
  /\ \E shuffled \in ShuffledDecks :
       game' = dealNewHand(rebuyHero(game, settings), settings, shuffled)
  /\ settings' = nextSettingsOf(game, settings)
  /\ chipsAtHandStart' = StartingChips(rebuyHero(game, settings), settings)
  /\ UNCHANGED <<returned, flow>>

\* An action request from the hero's controls or an AI decision, made while
\* the betting round is open.  Once the round is complete or one player is
\* left the advance effect runs first: at once when one player is left, after
\* 260 to 900 ms when the round is complete, where an AI decision takes 1000
\* ms (normal speed) or 2000 ms (slow speed) to arrive.
PlayerAction ==
  /\ ~game.isHandComplete
  /\ ~(countNonFoldedPlayers(game) <= 1 \/ isBettingRoundComplete(game))
  /\ \E action \in ActionKinds :
       \E amount \in (IF action \in {ActBet, ActRaise} THEN 0..MaxAmount ELSE {0}) :
         game' = playerAction(game, action, amount)
  /\ UNCHANGED <<settings, chipsAtHandStart, returned, flow>>

\* The advance effect of useGameFlow calling advanceGame.
AdvanceGame ==
  /\ ~game.isHandComplete
  /\ game.handNumber > 0
  /\ countNonFoldedPlayers(game) <= 1 \/ isBettingRoundComplete(game)
  /\ game' = advanceGame(game, settings)
  /\ flow' = advanceFlow(game, flow)
  /\ UNCHANGED <<settings, chipsAtHandStart, returned>>

Next == DealNewHand \/ RebuyAndDeal \/ PlayerAction \/ AdvanceGame

Spec == Init /\ [][Next]_vars

\* The game state machine with a driver that keeps going: a player whose turn
\* it is submits an action in the end (the AI timer, the hero's controls and
\* the hero's timeout), and the advance effect calls advanceGame in the end
\* when the round is complete.
SpecFair == Spec /\ WF_vars(PlayerAction) /\ WF_vars(AdvanceGame)

\* The states in which PlayerAction and AdvanceGame can take a step that
\* changes the game: ENABLED <<PlayerAction>>_vars and
\* ENABLED <<AdvanceGame>>_vars as state predicates.
PlayerActionEnabled ==
  /\ ~game.isHandComplete
  /\ ~(countNonFoldedPlayers(game) <= 1 \/ isBettingRoundComplete(game))
  /\ \E action \in ActionKinds :
       \E amount \in (IF action \in {ActBet, ActRaise} THEN 0..MaxAmount ELSE {0}) :
         playerAction(game, action, amount) # game

AdvanceGameEnabled ==
  /\ ~game.isHandComplete
  /\ game.handNumber > 0
  /\ countNonFoldedPlayers(game) <= 1 \/ isBettingRoundComplete(game)
  /\ advanceGame(game, settings) # game

\* SpecFair with each weak fairness condition WF_vars(A) written out as
\* "A is disabled again and again, or an A step is taken again and again",
\* which TLC evaluates on the states it has, where ENABLED evaluates the
\* store's functions afresh at every use of a value.
SpecFairly ==
  /\ Spec
  /\ ([]<>~PlayerActionEnabled) \/ ([]<><<PlayerAction>>_vars)
  /\ ([]<>~AdvanceGameEnabled) \/ ([]<><<AdvanceGame>>_vars)

(***************************************************************************)
(* calculatePots applied to arbitrary players: any contributions from      *)
(* ContribValues and any combination of the folded and all-in flags.       *)
(***************************************************************************)
MaxPotPlayers == 3

ContribValues == {0, 30, 50, 100}

PotInputs == [totalBetThisHand : ContribValues, isFolded : BOOLEAN, isAllIn : BOOLEAN]

PotPlayer(i, in) ==
  [createPlayer(IF i = 0 THEN "hero" ELSE AI_IDS[i], 0, i, i = 0)
     EXCEPT !.totalBetThisHand = in.totalBetThisHand,
            !.isFolded = in.isFolded,
            !.isAllIn = in.isAllIn]

InitPots ==
  /\ settings = BaseSettings
  /\ \E n \in 1..MaxPotPlayers :
       \E in \in [0..(n - 1) -> PotInputs] :
         game = [createInitialGameState(settings) EXCEPT
                   !.players = [i \in 0..(n - 1) |-> PotPlayer(i, in[i])]]
  /\ chipsAtHandStart = 0
  /\ returned = NoReturn
  /\ flow = NoFlow

CalculatePots ==
  /\ returned = NoReturn
  /\ returned' = [op |-> "calculatePots", value |-> calculatePots(game.players)]
  /\ UNCHANGED <<game, settings, chipsAtHandStart, flow>>

NextPots == CalculatePots

SpecPots == InitPots /\ [][NextPots]_vars

(***************************************************************************)
(* resolveShowdown applied to the players of a dealt hand with the board   *)
(* run out, each of them still in, folded, or without hole cards, and to   *)
(* arbitrary pot lists.                                                    *)
(***************************************************************************)
MaxShowdownPots == 2

PotAmounts == {3, 5}

SeatStates == {"in", "folded", "no cards"}

\* The non-empty lists of player ids in seat order.
EligibleLists(players) ==
  {Ids(SelectSeq(PlayerList(players), LAMBDA p : p.id \in S)) :
     S \in (SUBSET {players[i].id : i \in DOMAIN players}) \ {{}}}

PotLists(players) ==
  UNION {[1..n -> [amount : PotAmounts, eligiblePlayerIds : EligibleLists(players)]] :
           n \in 1..MaxShowdownPots}

\* The hands startNewHand deals at a full table, with the board run out: the
\* outcomes of the shuffle above and one more, with which the board is
\* 2s 7d 9c Jh Kd, seats 1 and 2 both hold an ace and a five and tie with
\* ace-high, and seat 0 has king-high.
ShowdownDeals ==
  {LET dealt == startNewHand(createInitialGameState(BaseSettings), BaseSettings, shuffled)
       bd == runOut([communityCards |-> <<>>, deck |-> dealt.deck])
   IN [dealt EXCEPT !.communityCards = bd.communityCards,
                    !.deck = bd.deck,
                    !.street = Showdown] :
     shuffled \in ShuffledDecks \cup
       {DeckWithPrefix(<<Card(3, "h"), Card(4, "d"), Card(14, "s"), Card(5, "c"),
                         Card(14, "h"), Card(5, "d"),
                         Card(2, "c"), Card(2, "s"), Card(3, "c"), Card(7, "d"),
                         Card(4, "c"), Card(9, "c"), Card(6, "c"), Card(11, "h"),
                         Card(8, "c"), Card(13, "d")>>)}}

InitShowdown ==
  /\ settings = BaseSettings
  /\ \E dealt \in ShowdownDeals :
       \E st \in [DOMAIN dealt.players -> SeatStates] :
         \E pots \in PotLists(dealt.players) :
           game = [dealt EXCEPT
                     !.players = [i \in DOMAIN dealt.players |->
                                    [dealt.players[i] EXCEPT
                                       !.isFolded = (st[i] = "folded"),
                                       !.holeCards = IF st[i] = "no cards"
                                                     THEN <<>> ELSE @]],
                     !.pots = pots]
  /\ chipsAtHandStart = 0
  /\ returned = NoReturn
  /\ flow = NoFlow

ResolveShowdown ==
  /\ returned = NoReturn
  /\ returned' = [op |-> "resolveShowdown",
                  value |-> resolveShowdown(game.players, game.communityCards, game.pots)]
  /\ UNCHANGED <<game, settings, chipsAtHandStart, flow>>

NextShowdown == ResolveShowdown

SpecShowdown == InitShowdown /\ [][NextShowdown]_vars

(***************************************************************************)
(* isBettingRoundComplete applied to arbitrary betting states: a table bet *)
(* of TableBet, every player folded or not, all-in or not, with a          *)
(* current-street bet of 0..MaxRoundBet and a log of the player's own.     *)
(***************************************************************************)
MaxRoundBet == 2

TableBet == 1

\* What a player's part of the log can hold: nothing, a blind posted
\* preflop, a call made preflop, a check made on the flop.
LogKinds == {"none", "blind", "call", "check"}

PlayerLog(id, kind) ==
  CASE kind = "none" -> <<>>
    [] kind = "blind" ->
         <<[playerId |-> id, type |-> PostBlind, amount |-> 1, street |-> Preflop]>>
    [] kind = "call" ->
         <<[playerId |-> id, type |-> ActCall, amount |-> 1, street |-> Preflop]>>
    [] kind = "check" ->
         <<[playerId |-> id, type |-> ActCheck, amount |-> 0, street |-> Flop]>>

RoundInputs ==
  [isFolded : BOOLEAN, isAllIn : BOOLEAN, currentBet : 0..MaxRoundBet, log : LogKinds]

RECURSIVE ConcatLogs(_, _, _)
ConcatLogs(players, in, i) ==
  IF i \notin DOMAIN in THEN <<>>
  ELSE PlayerLog(players[i].id, in[i].log) \o ConcatLogs(players, in, i + 1)

InitRound ==
  /\ settings = BaseSettings
  /\ \E street \in {Preflop, Flop} :
       LET initial == createInitialGameState(settings)
       IN \E in \in [DOMAIN initial.players -> RoundInputs] :
            game = [initial EXCEPT
                      !.handNumber = 1,
                      !.isHandComplete = FALSE,
                      !.street = street,
                      !.currentBet = TableBet,
                      !.players = [i \in DOMAIN initial.players |->
                                     [initial.players[i] EXCEPT
                                        !.isFolded = in[i].isFolded,
                                        !.isAllIn = in[i].isAllIn,
                                        !.currentBet = in[i].currentBet]],
                      !.actions = ConcatLogs(initial.players, in, 0)]
  /\ chipsAtHandStart = 0
  /\ returned = NoReturn
  /\ flow = NoFlow

IsBettingRoundComplete ==
  /\ returned = NoReturn
  /\ returned' = [op |-> "isBettingRoundComplete", value |-> isBettingRoundComplete(game)]
  /\ UNCHANGED <<game, settings, chipsAtHandStart, flow>>

NextRound == IsBettingRoundComplete

SpecRound == InitRound /\ [][NextRound]_vars

(***************************************************************************)
(* The engine functions applied directly to a dealt hand, in any order and *)
(* with any arguments: executeAction with every kind of action and every   *)
(* amount of EngineAmounts (negative, below the minimum, above the stack), *)
(* nextActivePlayerIndex, advanceStreet and getAvailableActions.           *)
(***************************************************************************)
\* executeAction calls made on one hand.
MaxEngineCalls == 2

\* The largest amount requested; more than any stack.
MaxEngineAmount == 5

EngineAmounts == (0 - 1)..MaxEngineAmount

\* The executeAction calls made so far on the hand.
EngineCalls(g) == Len(SelectSeq(g.actions, LAMBDA a : a.type # PostBlind))

\* The cards play no part in these functions: the deck is the shuffle that
\* leaves createDeck() in order.
InitEngine ==
  /\ settings \in SettingsChoices
  /\ game = startNewHand(createInitialGameState(settings), settings, createDeck)
  /\ chipsAtHandStart = StartingChips(createInitialGameState(settings), settings)
  /\ returned = NoReturn
  /\ flow = NoFlow

ExecuteAction ==
  /\ HasPlayer(game, game.activePlayerIndex)
  /\ EngineCalls(game) < MaxEngineCalls
  /\ \E action \in ActionKinds :
       \E amount \in (IF action \in {ActBet, ActRaise} THEN EngineAmounts ELSE {0}) :
         /\ game' = executeAction(game, action, amount)
         /\ returned' = [op |-> "executeAction", action |-> action, amount |-> amount]
  /\ UNCHANGED <<settings, chipsAtHandStart, flow>>

NextActivePlayerIndex ==
  /\ HasPlayer(game, game.activePlayerIndex)
  /\ game' = [game EXCEPT !.activePlayerIndex =
                nextActivePlayerIndex(game, game.activePlayerIndex)]
  /\ returned' = NoReturn
  /\ UNCHANGED <<settings, chipsAtHandStart, flow>>

AdvanceStreet ==
  /\ game.street # Showdown
  /\ game' = advanceStreet(game, settings.bigBlind)
  /\ returned' = NoReturn
  /\ UNCHANGED <<settings, chipsAtHandStart, flow>>

GetAvailableActions ==
  /\ returned.op # "getAvailableActions"
  /\ returned' = [op |-> "getAvailableActions", value |-> getAvailableActions(game)]
  /\ UNCHANGED <<game, settings, chipsAtHandStart, flow>>

NextEngine ==
  ExecuteAction \/ NextActivePlayerIndex \/ AdvanceStreet \/ GetAvailableActions

SpecEngine == InitEngine /\ [][NextEngine]_vars

(***************************************************************************)
(* evaluateHand and compareHands applied to lists of cards taken from      *)
(* three short decks: one card of every rank in alternating suits, the low *)
(* cards with the aces, and the high cards.                                *)
(***************************************************************************)
MaxHandCards == 7

MaxCompareCards == 8

MaxHoleCards == 4

MaxChainCards == 6

RankDeck ==
  <<Card(3, "h"), Card(14, "h"), Card(5, "h"), Card(2, "s"), Card(4, "s"),
    Card(6, "s"), Card(7, "h"), Card(8, "s"), Card(9, "h"), Card(10, "s"),
    Card(11, "h"), Card(12, "s"), Card(13, "h")>>

LowDeck ==
  <<Card(5, "s"), Card(14, "s"), Card(3, "h"), Card(2, "s"), Card(4, "s"),
    Card(2, "h"), Card(3, "s"), Card(6, "s"), Card(7, "s"), Card(14, "h"),
    Card(2, "d"), Card(2, "c")>>

HighDeck ==
  <<Card(12, "s"), Card(10, "s"), Card(14, "s"), Card(11, "s"), Card(13, "s"),
    Card(9, "h"), Card(14, "h"), Card(13, "h"), Card(14, "d"), Card(14, "c"),
    Card(9, "s")>>

EvalDecks == {RankDeck, LowDeck, HighDeck}

\* The lists of n cards of a deck, in the order of the deck.
CardLists(deck, n) ==
  LET idx == CombosFrom(1, Len(deck), n)
  IN {[k \in 1..n |-> deck[idx[t][k]]] : t \in 1..Len(idx)}

Front(deck, n) == SubSeq(deck, 1, Min2(n, Len(deck)))

EvalInputs == UNION {CardLists(deck, n) : deck \in EvalDecks, n \in 0..MaxHandCards}

\* The hands of seven cards a showdown evaluates, hole cards first: the board
\* is the first five cards of the deck and the hole cards are two of the
\* cards after them.
ShowdownHands(deck) ==
  {holeCards \o Front(deck, 5) :
     holeCards \in CardLists(SubSeq(deck, 6, 5 + MaxHoleCards), 2)}

\* The hands of five cards from the front of a deck, and its showdown hands.
CompareInputs(deck) ==
  CardLists(Front(deck, MaxCompareCards), 5) \cup ShowdownHands(deck)

\* The hands of five cards from the fronts of the decks.
ChainInputs == UNION {CardLists(Front(deck, MaxChainCards), 5) : deck \in EvalDecks}

InitEval ==
  /\ settings = BaseSettings
  /\ game = createInitialGameState(settings)
  /\ chipsAtHandStart = 0
  /\ returned = NoReturn
  /\ flow = NoFlow

EvaluateHand ==
  /\ returned = NoReturn
  /\ \E cards \in EvalInputs :
       returned' = [op |-> "evaluateHand", cards |-> cards, value |-> evaluateHand(cards)]
  /\ UNCHANGED <<game, settings, chipsAtHandStart, flow>>

\* compareHands applied to every ordered pair of the evaluated hands.
Compared(hands, results) ==
  [op |-> "compareHands", hands |-> hands, results |-> results,
   value |-> [i \in 1..Len(hands) |->
                [j \in 1..Len(hands) |-> compareHands(results[i], results[j])]]]

\* Two hands of one deck, or three hands of five cards from the fronts of
\* the decks.
CompareHands ==
  /\ returned = NoReturn
  /\ \/ \E deck \in EvalDecks :
          \E a, b \in CompareInputs(deck) :
            returned' = Compared(<<a, b>>, <<evaluateHand(a), evaluateHand(b)>>)
     \/ \E a, b, c \in ChainInputs :
          returned' = Compared(<<a, b, c>>,
                               <<evaluateHand(a), evaluateHand(b), evaluateHand(c)>>)
  /\ UNCHANGED <<game, settings, chipsAtHandStart, flow>>

NextEval ==
  \/ EvaluateHand
  \/ CompareHands

SpecEval == InitEval /\ [][NextEval]_vars

(***************************************************************************)
(* The driver: the effects of useGameFlow and the hero's controls acting   *)
(* on the store.  Every change of game re-runs the hero, advance and AI    *)
(* effects in that order; the advance timer and the AI timer start         *)
(* together and the shorter delay fires first, its change of game          *)
(* cancelling the other.  Pausing is left out.                             *)
(***************************************************************************)
MaxFlowHands == 1

MaxFlowActions == 20

GameSpeeds == {"fast", "normal", "slow"}

QueuedActions == {"none", "check", "check-fold", "call"}

aiDelay(s) ==
  IF s.gameSpeed = "fast" THEN 400 ELSE IF s.gameSpeed = "slow" THEN 2000 ELSE 1000

dramaticDelay(g) ==
  IF g.street = River THEN 900
  ELSE IF g.street = Turn THEN 550
  ELSE IF g.street = Flop THEN 380 ELSE 260

HeroIndex(g) == CHOOSE i \in DOMAIN g.players : g.players[i].isHuman

isHeroTurn(g) == g.activePlayerIndex = HeroIndex(g) /\ ~g.isHandComplete

canQueue(g) ==
  /\ ~g.isHandComplete
  /\ ~isHeroTurn(g)
  /\ ~g.players[HeroIndex(g)].isFolded
  /\ ~g.players[HeroIndex(g)].isAllIn

\* The guard of the hero decision effect.
heroDecides(g) ==
  /\ ~g.isHandComplete
  /\ g.handNumber # 0
  /\ ~g.players[HeroIndex(g)].isFolded
  /\ ~g.players[HeroIndex(g)].isAllIn
  /\ g.activePlayerIndex = HeroIndex(g)

\* The guard of the AI effect.
aiToAct(g) ==
  /\ ~g.isHandComplete
  /\ g.handNumber # 0
  /\ HasPlayer(g, g.activePlayerIndex)
  /\ ~g.players[g.activePlayerIndex].isHuman
  /\ ~g.players[g.activePlayerIndex].isFolded
  /\ ~g.players[g.activePlayerIndex].isAllIn

NoRequest == <<"none", 0>>

\* What the hero decision effect submits for a queued pre-action.
queuedRequest(g, queued) ==
  LET available == getAvailableActions(g)
  IN IF queued = "check" /\ available.canCheck THEN <<ActCheck, 0>>
     ELSE IF queued = "check-fold"
       THEN IF available.canCheck THEN <<ActCheck, 0>>
            ELSE IF available.canFold THEN <<ActFold, 0>>
            ELSE NoRequest
     ELSE IF queued = "call" /\ available.canCall THEN <<ActCall, available.callAmount>>
     ELSE NoRequest

\* What the hero decision effect submits when the clock and the time bank
\* have run out.
timeoutRequest(g) ==
  LET available == getAvailableActions(g)
  IN IF available.canCheck THEN <<ActCheck, 0>>
     ELSE IF available.canFold THEN <<ActFold, 0>>
     ELSE IF available.canCall THEN <<ActCall, available.callAmount>>
     ELSE NoRequest

\* A queued pre-action is submitted as soon as the hero's turn begins.
queuedPending(g, f) ==
  heroDecides(g) /\ queuedRequest(g, f.queuedAction) # NoRequest

\* The advance effect calls advanceGame at once.
advancesAtOnce(g) ==
  ~g.isHandComplete /\ g.handNumber # 0 /\ countNonFoldedPlayers(g) <= 1

\* The advance effect has set its timer.
advanceTimerSet(g) ==
  /\ ~g.isHandComplete
  /\ g.handNumber # 0
  /\ countNonFoldedPlayers(g) > 1
  /\ isBettingRoundComplete(g)

aiTimerFirst(g, s) ==
  aiToAct(g) /\ (advanceTimerSet(g) => aiDelay(s) < dramaticDelay(g))

\* A callback of the AI timer that waited for its modules goes on, now that
\* they are loaded, before any other timer or event.
callbackDue(f) == f.modulesLoaded /\ f.aiInFlight # <<>>

InitFlow ==
  /\ settings \in {[BaseSettings EXCEPT !.gameSpeed = speed] : speed \in GameSpeeds}
  /\ game = createInitialGameState(settings)
  /\ chipsAtHandStart = 0
  /\ returned = NoReturn
  /\ flow = NoFlow

\* startGame, the Deal button, the D key and the auto-deal timer.
StartHand ==
  /\ ~callbackDue(flow)
  /\ game.isHandComplete
  /\ game.handNumber < MaxFlowHands
  /\ \E shuffled \in ShuffledDecks :
       game' = dealNewHand(game, settings, shuffled)
  /\ settings' = nextSettingsOf(game, settings)
  /\ chipsAtHandStart' = StartingChips(game, settings)
  /\ flow' = [flow EXCEPT !.queuedAction = "none"]
  /\ UNCHANGED returned

\* The pre-action buttons: each sets its pre-action, or none when it is set.
SetQueuedAction ==
  /\ ~callbackDue(flow)
  /\ canQueue(game)
  /\ \E queued \in QueuedActions \ {flow.queuedAction} :
       flow' = [flow EXCEPT !.queuedAction = queued]
  /\ UNCHANGED <<game, settings, chipsAtHandStart, returned>>

\* The hero decision effect submitting the queued pre-action.
QueuedPreAction ==
  /\ ~callbackDue(flow)
  /\ queuedPending(game, flow)
  /\ Len(game.actions) < MaxFlowActions
  /\ LET submit(request) == game' = playerAction(game, request[1], request[2])
     IN submit(queuedRequest(game, flow.queuedAction))
  /\ flow' = [flow EXCEPT !.queuedAction = "none"]
  /\ UNCHANGED <<settings, chipsAtHandStart, returned>>

\* The hero's action buttons and keys, shown whenever it is the hero's turn.
HeroAction ==
  /\ ~callbackDue(flow)
  /\ isHeroTurn(game)
  /\ ~queuedPending(game, flow)
  /\ ~advancesAtOnce(game)
  /\ Len(game.actions) < MaxFlowActions
  /\ \E action \in ActionKinds :
       \E amount \in (IF action \in {ActBet, ActRaise} THEN 0..MaxAmount ELSE {0}) :
         /\ game' = playerAction(game, action, amount)
         /\ flow' = IF playerAction(game, action, amount) # game
                    THEN [flow EXCEPT !.queuedAction = "none"] ELSE flow
  /\ UNCHANGED <<settings, chipsAtHandStart, returned>>

\* The hero decision effect acting for the hero after the decision clock (12
\* s) and the time bank have run out, which takes longer than every delay of
\* the advance timer.
HeroTimeout ==
  /\ ~callbackDue(flow)
  /\ heroDecides(game)
  /\ ~queuedPending(game, flow)
  /\ ~advancesAtOnce(game)
  /\ ~advanceTimerSet(game)
  /\ Len(game.actions) < MaxFlowActions
  /\ timeoutRequest(game) # NoRequest
  /\ LET submit(request) == game' = playerAction(game, request[1], request[2])
     IN submit(timeoutRequest(game))
  /\ flow' = [flow EXCEPT !.queuedAction = "none"]
  /\ UNCHANGED <<settings, chipsAtHandStart, returned>>

\* The AI timer submitting a decision, any request; the modules its callback
\* imports are loaded and the callback runs to its end without a wait.
AIAction ==
  /\ ~callbackDue(flow)
  /\ flow.modulesLoaded
  /\ aiTimerFirst(game, settings)
  /\ ~advancesAtOnce(game)
  /\ Len(game.actions) < MaxFlowActions
  /\ \E action \in ActionKinds :
       \E amount \in (IF action \in {ActBet, ActRaise} THEN 0..MaxAmount ELSE {0}) :
         game' = playerAction(game, action, amount)
  /\ UNCHANGED <<settings, chipsAtHandStart, returned, flow>>

\* The advance effect calling advanceGame: at once when one player is left,
\* by its timer when the round is complete.
AdvanceEffect ==
  /\ ~callbackDue(flow)
  /\ ~queuedPending(game, flow)
  /\ advancesAtOnce(game) \/ (advanceTimerSet(game) /\ ~aiTimerFirst(game, settings))
  /\ game' = advanceGame(game, settings)
  /\ flow' = advanceFlow(game, flow)
  /\ UNCHANGED <<settings, chipsAtHandStart, returned>>

NextFlow ==
  \/ StartHand
  \/ SetQueuedAction
  \/ QueuedPreAction
  \/ HeroAction
  \/ HeroTimeout
  \/ AIAction
  \/ AdvanceEffect

SpecFlow == InitFlow /\ [][NextFlow]_vars

(***************************************************************************)
(* The store called by more than the effects of useGameFlow: advanceGame() *)
(* takes no argument and reads the game from the store, and it is offered  *)
(* to every holder of the store.  The steps are those of the driver and    *)
(* calls of advanceGame() that no effect guards.                           *)
(***************************************************************************)
MaxFinalisations == 2

AdvanceGameCall ==
  /\ game.handNumber > 0
  /\ flow.handsPlayed < MaxFinalisations
  /\ game' = advanceGame(game, settings)
  /\ flow' = advanceFlow(game, flow)
  /\ UNCHANGED <<settings, chipsAtHandStart, returned>>

NextStore == NextFlow \/ AdvanceGameCall

SpecStore == InitFlow /\ [][NextStore]_vars

(***************************************************************************)
(* The driver from the first AI decision of a session on.  The AI timer    *)
(* callback awaits import('../ai/decision-engine') and                     *)
(* import('../ai/profiles') before it decides: until the modules are       *)
(* loaded a callback whose timer has fired waits, with the player and the  *)
(* game of its effect run in its closure, and the effect's cleanup, which  *)
(* clears timers only, no longer reaches it.  Meanwhile the speed select   *)
(* of the action bar is at hand: updateSettings runs the AI effect again   *)
(* and sets a new timer.                                                   *)
(***************************************************************************)
MaxInFlight == 2

aiClosure(g, s) ==
  [player |-> g.players[g.activePlayerIndex].id, game |-> g, speed |-> s.gameSpeed]

\* The timer of the AI effect run for this game and speed has fired.
aiTimerFired(g, s, f) ==
  \E k \in DOMAIN f.aiInFlight : f.aiInFlight[k] = aiClosure(g, s)

InitAsync ==
  /\ settings = BaseSettings
  /\ game = createInitialGameState(settings)
  /\ chipsAtHandStart = 0
  /\ returned = NoReturn
  /\ flow = [NoFlow EXCEPT !.modulesLoaded = FALSE]

\* The AI timer fires and its callback starts to wait for the modules.
AITimerFires ==
  /\ ~flow.modulesLoaded
  /\ aiTimerFirst(game, settings)
  /\ ~advancesAtOnce(game)
  /\ ~aiTimerFired(game, settings, flow)
  /\ Len(flow.aiInFlight) < MaxInFlight
  /\ flow' = [flow EXCEPT !.aiInFlight = Append(@, aiClosure(game, settings))]
  /\ UNCHANGED <<game, settings, chipsAtHandStart, returned>>

\* The modules are loaded and the callback that waited longest goes on: it
\* decides for the player and the game of its closure, any request, and
\* calls playerAction, which acts on the game of the store.
AIDecisionApplies ==
  /\ flow.aiInFlight # <<>>
  /\ Len(game.actions) < MaxFlowActions
  /\ \E action \in ActionKinds :
       \E amount \in (IF action \in {ActBet, ActRaise} THEN 0..MaxAmount ELSE {0}) :
         /\ game' = playerAction(game, action, amount)
         /\ flow' = [flow EXCEPT
                       !.modulesLoaded = TRUE,
                       !.aiInFlight = Tail(@),
                       !.queuedAction =
                         IF isHeroTurn(game) /\ playerAction(game, action, amount) # game
                         THEN "none" ELSE @]
  /\ UNCHANGED <<settings, chipsAtHandStart, returned>>

\* The speed select of the action bar: updateSettings({ gameSpeed }).
UpdateSettings ==
  /\ ~callbackDue(flow)
  /\ \E speed \in GameSpeeds \ {settings.gameSpeed} :
       settings' = [settings EXCEPT !.gameSpeed = speed]
  /\ UNCHANGED <<game, chipsAtHandStart, returned, flow>>

NextAsync == NextFlow \/ AITimerFires \/ UpdateSettings \/ AIDecisionApplies

SpecAsync == InitAsync /\ [][NextAsync]_vars

(***************************************************************************)
(* Properties of the game state machine.                                   *)
(***************************************************************************)
\* C1: when a hand is complete, the stacks sum to what they summed to when
\* the hand was started, before antes and blinds were posted (cash mode and
\* tournament mode, with or without antes).
C1_StacksRestoredAfterHand ==
  (game.isHandComplete /\ game.handNumber > 0)
    => Stacks(game.players) = chipsAtHandStart

InProgress == game.handNumber > 0 /\ ~game.isHandComplete

\* Chips in the stacks and in the cumulative bets of the hand.
ChipsInPlay(g) == Stacks(g.players) + TotalBets(PlayerList(g.players))

ShowdownResolved == game.handNumber > 0 /\ game.isHandComplete /\ game.street = Showdown

SeatOf(id) == CHOOSE i \in DOMAIN game.players : game.players[i].id = id

\* What all players contributed up to the contribution x.
ContributedUpTo(x) ==
  SumSeq([k \in 1..NumPlayers(game.players) |->
            Min2(game.players[k - 1].totalBetThisHand, x)])

\* C7: after completeHand has resolved a showdown, every winner is eligible
\* for a pot, no folded player is among the winners, and a winner who is
\* all-in for a total contribution x has received at most the sum over all
\* players of min(contribution, x).
C7_OnlyEligiblePlayersWin ==
  ShowdownResolved =>
    \A k \in 1..Len(game.winners) :
      LET p == game.players[SeatOf(game.winners[k].playerId)]
      IN /\ ~p.isFolded
         /\ \E n \in 1..Len(game.pots) :
              \E e \in 1..Len(game.pots[n].eligiblePlayerIds) :
                game.pots[n].eligiblePlayerIds[e] = p.id
         /\ p.isAllIn => game.winners[k].amount <= ContributedUpTo(p.totalBetThisHand)

\* The players who can still act: neither folded nor all-in.
CanAct(g) == {i \in DOMAIN g.players : ~g.players[i].isFolded /\ ~g.players[i].isAllIn}

\* The first player who can act in seat order after seat `from`, wrapping
\* around and ending with `from` itself; -1 when nobody can.
NextToAct(g, from) ==
  LET n == NumPlayers(g.players)
      dist(i) == (i - from - 1 + n) % n
  IN IF CanAct(g) = {} THEN -1
     ELSE CHOOSE i \in CanAct(g) : \A j \in CanAct(g) : dist(i) <= dist(j)

\* A step in which a player acted: one record more in the log of the hand.
Acted ==
  /\ InProgress
  /\ game'.handNumber = game.handNumber
  /\ Len(game'.actions) = Len(game.actions) + 1

\* C8: in every state of a hand in progress reached by startNewHand, a player
\* action or an advance to a later street, activePlayerIndex is -1 or the
\* index of a player who is neither folded nor all-in, and it is -1 only when
\* there is no such player; after an action it is the next such player in
\* seat order after the one who acted, wrapping around.
C8_ActivePlayerCanAct ==
  [][(game'.handNumber > 0 /\ ~game'.isHandComplete) =>
       /\ IF CanAct(game') = {} THEN game'.activePlayerIndex = -1
          ELSE game'.activePlayerIndex \in CanAct(game')
       /\ Acted => game'.activePlayerIndex = NextToAct(game', game.activePlayerIndex)]_vars

\* C8 witness: the pointer has wrapped around from the last seat to seat 0,
\* passing no one, after an action on the flop.
C8_Witness ==
  /\ InProgress
  /\ game.street = Flop
  /\ game.activePlayerIndex = 0
  /\ game.actions # <<>>
  /\ game.actions[Len(game.actions)].street = Flop
  /\ game.actions[Len(game.actions)].playerId = game.players[NumPlayers(game.players) - 1].id

(***************************************************************************)
(* Properties of calculatePots.                                            *)
(***************************************************************************)
PotsReturned == returned.op = "calculatePots"

Contributions == PlayerList(game.players)

Range(seq) == {seq[k] : k \in 1..Len(seq)}

Contribution(i) == game.players[i].totalBetThisHand

Contender(i) == ~game.players[i].isFolded

MaxContribution == SetMax({Contribution(i) : i \in DOMAIN game.players})

\* The totals of the non-folded all-in players below the maximum.
ShortAllInTotals ==
  {Contribution(i) : i \in {j \in DOMAIN game.players :
      Contender(j) /\ game.players[j].isAllIn /\ Contribution(j) < MaxContribution}}

LevelSet == ShortAllInTotals \cup {MaxContribution}

\* The k-th level in ascending order, and the level below it (0 for the first).
LevelAt(levels, k) == CHOOSE L \in levels : Cardinality({x \in levels : x < L}) = k - 1

FloorOf(L) == IF \E x \in LevelSet : x < L THEN SetMax({x \in LevelSet : x < L}) ELSE 0

\* What all players, folded or not, contributed between two levels.
SliceAmount(L, F) ==
  SumSeq([k \in 1..Len(Contributions) |->
            Min2(Contributions[k].totalBetThisHand, L)
            - Min2(Contributions[k].totalBetThisHand, F)])

EligibleAt(L) ==
  {game.players[i].id : i \in {j \in DOMAIN game.players :
      Contender(j) /\ Contribution(j) >= L}}

PotsAreTheLevels ==
  /\ Len(returned.value) = Cardinality(LevelSet)
  /\ \A k \in 1..Len(returned.value) :
       LET L == LevelAt(LevelSet, k)
       IN /\ returned.value[k].amount = SliceAmount(L, FloorOf(L))
          /\ Range(returned.value[k].eligiblePlayerIds) = EligibleAt(L)

LiveLevels == {L \in LevelSet : L > 0 /\ EligibleAt(L) # {}}

ShowdownReturned == returned.op = "resolveShowdown"

WinnersTotal(winners) == SumSeq([k \in 1..Len(winners) |-> winners[k].amount])

\* The players who show a hand: not folded and holding hole cards.
Shows(id) ==
  \E i \in DOMAIN game.players :
    /\ game.players[i].id = id
    /\ ~game.players[i].isFolded
    /\ game.players[i].holeCards # <<>>

EveryPotContested ==
  \A k \in 1..Len(game.pots) : \E id \in Range(game.pots[k].eligiblePlayerIds) : Shows(id)

\* C6: for players, a full board and pots each of which has an eligible
\* non-folded player holding hole cards, the amounts of the winners returned
\* by resolveShowdown sum to the sum of the pot amounts.
C6_WinnersSumToPots ==
  (ShowdownReturned /\ Len(game.communityCards) = 5 /\ EveryPotContested)
    => WinnersTotal(returned.value.winners) = totalPotSize(game.pots)

\* C6 witness: two pots of 5 and 3 chips are split between tied hands, three
\* ways and two ways, and three different players are paid.
C6_Witness ==
  /\ ShowdownReturned
  /\ EveryPotContested
  /\ game.pots = <<[amount |-> 5, eligiblePlayerIds |-> <<"hero", "ai-0", "ai-1">>],
                   [amount |-> 3, eligiblePlayerIds |-> <<"ai-0", "ai-1">>]>>
  /\ returned.value.winners =
       <<[playerId |-> "hero", amount |-> 3, hand |-> <<"Flush, ", "Jack", "-high">>],
         [playerId |-> "ai-0", amount |-> 3, hand |-> <<"Flush, ", "Jack", "-high">>],
         [playerId |-> "ai-1", amount |-> 2, hand |-> <<"Flush, ", "Jack", "-high">>]>>

(***************************************************************************)
(* Properties of isBettingRoundComplete.                                   *)
(***************************************************************************)
RoundReturned == returned.op = "isBettingRoundComplete"

NotFolded == {i \in DOMAIN game.players : ~game.players[i].isFolded}

NotAllIn == {i \in NotFolded : ~game.players[i].isAllIn}

\* The player has a logged action on the current street other than a blind
\* or ante post.
HasActedOnStreet(i) ==
  \E k \in 1..Len(game.actions) :
    /\ game.actions[k].playerId = game.players[i].id
    /\ game.actions[k].street = game.street
    /\ game.actions[k].type # PostBlind

HasMatchedBet(i) == game.players[i].currentBet >= game.currentBet

\* C9: isBettingRoundComplete returns true exactly when (a) at most one
\* player has not folded, or (b) every non-folded player is all-in, or (c)
\* exactly one non-folded player is not all-in and has acted on the current
\* street (blind and ante posts aside) with a current-street bet not below
\* the table bet, or (d) two or more non-folded players are not all-in and
\* each of them has so acted and so bet.
C9_RoundCompleteExactly ==
  RoundReturned =>
    (returned.value <=>
       \/ Cardinality(NotFolded) <= 1
       \/ NotAllIn = {}
       \/ /\ Cardinality(NotAllIn) = 1
          /\ \A i \in NotAllIn : HasActedOnStreet(i) /\ HasMatchedBet(i)
       \/ /\ Cardinality(NotAllIn) >= 2
          /\ \A i \in NotAllIn : HasActedOnStreet(i) /\ HasMatchedBet(i))

\* C9 witness: preflop, every player is in with the bet matched, two have
\* called and the third has only posted a blind: the round is not complete.
C9_Witness ==
  /\ RoundReturned
  /\ ~returned.value
  /\ game.street = Preflop
  /\ Cardinality(NotAllIn) = NumPlayers(game.players)
  /\ \A i \in NotAllIn : HasMatchedBet(i)
  /\ Cardinality({i \in NotAllIn : HasActedOnStreet(i)}) = NumPlayers(game.players) - 1
  /\ \E k \in 1..Len(game.actions) : game.actions[k].type = PostBlind

\* The one non-folded player who is not all-in, all the others being all-in.
FacesOnlyAllIns(i) ==
  /\ NotAllIn = {i}
  /\ Cardinality(NotFolded) >= 2

\* C10: when exactly one non-folded player is not all-in and every other
\* non-folded player is all-in, the round is complete if that player has
\* acted on the current street with a bet matching the table bet, and is not
\* complete while that player has not acted on the street or has a
\* current-street bet below the table bet.
C10_LoneActivePlayer ==
  RoundReturned =>
    \A i \in DOMAIN game.players :
      FacesOnlyAllIns(i) =>
        /\ (HasActedOnStreet(i) /\ HasMatchedBet(i)) => returned.value
        /\ (~HasActedOnStreet(i) \/ ~HasMatchedBet(i)) => ~returned.value

\* C10 witness: the lone player not all-in has acted on the street but still
\* faces a larger all-in bet, and the round is not complete.
C10_Witness ==
  /\ RoundReturned
  /\ ~returned.value
  /\ \E i \in DOMAIN game.players :
       /\ FacesOnlyAllIns(i)
       /\ HasActedOnStreet(i)
       /\ ~HasMatchedBet(i)
       /\ \E j \in NotFolded : game.players[j].currentBet > game.players[i].currentBet

(***************************************************************************)
(* Properties of the engine functions applied directly.                    *)
(***************************************************************************)
ActionsReturned == returned.op = "getAvailableActions"

\* The designated player can act: present, not folded, not all-in.
Designated(g) ==
  /\ HasPlayer(g, g.activePlayerIndex)
  /\ ~g.players[g.activePlayerIndex].isFolded
  /\ ~g.players[g.activePlayerIndex].isAllIn

Outstanding(g) == g.currentBet - g.players[g.activePlayerIndex].currentBet

\* C11: for a designated player who is neither folded nor all-in, with
\* outstanding = table currentBet - own currentBet, getAvailableActions
\* reports canFold and canCall exactly when outstanding > 0, canCheck exactly
\* when outstanding = 0 (never both check and call), callAmount =
\* min(outstanding, stack), canBet exactly when outstanding = 0 and stack > 0,
\* canRaise exactly when outstanding > 0 and stack > outstanding, maxRaise =
\* stack; for a missing, folded or all-in player every flag is false and
\* every amount is 0.
C11_AvailableActions ==
  ActionsReturned =>
    LET a == returned.value
    IN IF Designated(game)
       THEN LET stack == game.players[game.activePlayerIndex].stack
                outstanding == Outstanding(game)
            IN /\ a.canFold <=> outstanding > 0
               /\ a.canCall <=> outstanding > 0
               /\ a.canCheck <=> outstanding = 0
               /\ ~(a.canCheck /\ a.canCall)
               /\ a.callAmount = (IF outstanding <= stack THEN outstanding ELSE stack)
               /\ a.canBet <=> (outstanding = 0 /\ stack > 0)
               /\ a.canRaise <=> (outstanding > 0 /\ stack > outstanding)
               /\ a.maxRaise = stack
       ELSE /\ ~a.canFold /\ ~a.canCheck /\ ~a.canCall /\ ~a.canBet /\ ~a.canRaise
            /\ a.callAmount = 0 /\ a.minRaise = 0 /\ a.maxRaise = 0

\* C11 witness: the query for a player who faces a bet larger than the stack:
\* call offered for the whole stack, raise not offered.
C11_Witness ==
  /\ ActionsReturned
  /\ Designated(game)
  /\ Outstanding(game) > game.players[game.activePlayerIndex].stack
  /\ game.players[game.activePlayerIndex].stack > 0
  /\ returned.value.canCall
  /\ ~returned.value.canRaise
  /\ returned.value.callAmount = game.players[game.activePlayerIndex].stack

\* The last step was executeAction(game, returned'.action, returned'.amount).
Executed == returned'.op = "executeAction"

\* The chips executeAction took from the acting player's stack.
Moved == game.players[game.activePlayerIndex].stack
           - game'.players[game.activePlayerIndex].stack

NoNegativeChips(g) ==
  \A i \in DOMAIN g.players :
    /\ g.players[i].stack >= 0
    /\ g.players[i].currentBet >= 0
    /\ g.players[i].totalBetThisHand >= 0

\* C12: for Call, Bet, Raise and AllIn with any requested amount, the chips
\* moved never exceed the acting player's stack: a Bet or Raise requesting
\* more than the stack moves exactly the stack, a Call moves
\* min(outstanding, stack), AllIn moves the whole stack; afterwards no stack,
\* current-street bet or cumulative bet is negative, and the acting player is
\* all-in exactly when the stack has reached 0.
C12_ChipsMovedWithinStack ==
  [][(Executed /\ returned'.action \in {ActCall, ActBet, ActRaise, ActAllIn}) =>
       LET stack == game.players[game.activePlayerIndex].stack
           after == game'.players[game.activePlayerIndex]
       IN /\ Moved <= stack
          /\ (returned'.action \in {ActBet, ActRaise} /\ returned'.amount > stack)
               => Moved = stack
          /\ returned'.action = ActCall => Moved = Min2(Outstanding(game), stack)
          /\ returned'.action = ActAllIn => Moved = stack
          /\ NoNegativeChips(game')
          /\ after.isAllIn <=> after.stack = 0]_vars

\* C13: within a hand no step lowers the table current bet, except
\* advanceStreet, which moves to the next street and returns it to 0; in
\* particular no executeAction call of any kind and any requested amount
\* lowers it.  Stated for the steps that leave no negative stack or bet, so
\* that a violation does not rest on a negative amount (C12).
C13_CurrentBetNeverDecreases ==
  [][(game'.handNumber = game.handNumber /\ NoNegativeChips(game')) =>
       \/ game'.currentBet >= game.currentBet
       \/ (game'.street # game.street /\ game'.currentBet = 0)]_vars

(***************************************************************************)
(* Properties of the streets and of the hand life cycle.                   *)
(***************************************************************************)
StreetOrder(street) ==
  CASE street = Preflop -> 0
    [] street = Flop -> 1
    [] street = Turn -> 2
    [] street = River -> 3
    [] street = Showdown -> 4

RECURSIVE StreetByStreet(_, _)
StreetByStreet(g, bigBlind) ==
  IF g.street \in {River, Showdown} THEN g
  ELSE StreetByStreet(advanceStreet(g, bigBlind), bigBlind)

\* The step completes, by a run-out, a hand that two or more players contest
\* with fewer than five cards on the board.
RunOutStep ==
  /\ InProgress
  /\ game'.handNumber = game.handNumber
  /\ game'.isHandComplete
  /\ countNonFoldedPlayers(game) >= 2
  /\ Len(game.communityCards) < 5

\* C15: when completeHand is called with two or more non-folded players and
\* fewer than five community cards, the board and the remaining deck it
\* leaves are those successive advanceStreet calls would have produced (one
\* burn before the flop, one before the turn, one before the river); the
\* board has exactly 5 cards, the street is Showdown and every winner's hand
\* is made of cards of a 7-card evaluation.
C15_RunOutAsAdvanceStreet ==
  [][RunOutStep =>
       /\ game'.communityCards = StreetByStreet(game, settings.bigBlind).communityCards
       /\ game'.deck = StreetByStreet(game, settings.bigBlind).deck
       /\ Len(game'.communityCards) = 5
       /\ game'.street = Showdown
       /\ game'.winners # <<>>]_vars

\* The step completes a hand that exactly one player has not folded.
FoldWinStep ==
  /\ InProgress
  /\ game'.handNumber = game.handNumber
  /\ game'.isHandComplete
  /\ countNonFoldedPlayers(game) = 1

\* The seat of the only player who has not folded.
Survivor(g) == CHOOSE i \in DOMAIN g.players : ~g.players[i].isFolded

\* C16: when exactly one player has not folded, completing the hand awards
\* that player the sum of all pot amounts, the folded players' contributions
\* included, in a single winners entry described 'Everyone folded'; no
\* community card is dealt and the street is left unchanged.
C16_SurvivorTakesAllPots ==
  [][FoldWinStep =>
       LET s == Survivor(game)
       IN /\ game'.winners =
               <<[playerId |-> game.players[s].id,
                  amount |-> totalPotSize(game'.pots),
                  hand |-> <<"Everyone folded">>]>>
          /\ totalPotSize(game'.pots) = TotalBets(PlayerList(game.players))
          /\ game'.players[s].stack
               = game.players[s].stack + TotalBets(PlayerList(game.players))
          /\ \A i \in DOMAIN game.players :
               i # s => game'.players[i].stack = game.players[i].stack
          /\ game'.communityCards = game.communityCards
          /\ game'.deck = game.deck
          /\ game'.street = game.street]_vars

\* C16 witness: a hand won by fold on a later street by a player other than
\* the first seat, the pot holding chips of players who folded.
C16_Witness ==
  /\ game.handNumber > 0
  /\ game.isHandComplete
  /\ Len(game.winners) = 1
  /\ game.winners[1].hand = <<"Everyone folded">>
  /\ game.winners[1].playerId # "hero"
  /\ game.street = Flop
  /\ game.winners[1].amount > game.players[Survivor(game)].totalBetThisHand

(***************************************************************************)
(* Properties of the store's playerAction, for every request that can be   *)
(* made in a state of the game.                                            *)
(***************************************************************************)
Requests == ActionKinds \X (0..MaxAmount)

\* The requested kind is not offered to the active player.
NotOffered(g, action) ==
  LET available == getAvailableActions(g)
  IN \/ action = ActCheck /\ ~available.canCheck
     \/ action = ActFold /\ ~available.canFold
     \/ action = ActCall /\ ~available.canCall
     \/ action = ActBet /\ ~available.canBet
     \/ action = ActRaise /\ ~available.canRaise
     \/ action = ActAllIn /\ HasPlayer(g, g.activePlayerIndex)
          /\ g.players[g.activePlayerIndex].stack <= 0

\* C17: a playerAction request that is not legal leaves the game unchanged:
\* when the hand is complete, when there is no active player, and when the
\* requested kind is not offered by getAvailableActions (Check while facing a
\* bet, Fold or Call with nothing to call, Bet while facing a bet, Raise
\* without more chips than the call, AllIn with an empty stack).
C17_IllegalRequestsIgnored ==
  \A rq \in Requests :
    (\/ game.isHandComplete
     \/ ~HasPlayer(game, game.activePlayerIndex)
     \/ NotOffered(game, rq[1]))
      => playerAction(game, rq[1], rq[2]) = game

\* The request is one playerAction drops.
Dropped(g, action) ==
  LET available == getAvailableActions(g)
  IN \/ g.isHandComplete
     \/ ~HasPlayer(g, g.activePlayerIndex)
     \/ action \in {ActFold, ActCheck, ActCall}
          /\ ~available.canCheck /\ ~available.canCall
     \/ action = ActBet /\ ~available.canBet
     \/ action = ActRaise /\ ~available.canRaise
     \/ action = ActAllIn /\ g.players[g.activePlayerIndex].stack <= 0

LastAction(g) == g.actions[Len(g.actions)]

\* C17, amended: a request made when the hand is complete or there is no
\* active player, a Bet while facing a bet, a Raise without more chips than
\* the call, an AllIn with an empty stack, and a Fold, Check or Call when
\* neither check nor call is offered leave the game unchanged; a Check while
\* facing a bet is applied as a Call of the call amount, and a Fold or Call
\* with nothing to call is applied as a Check.
C17_IllegalRequestsDroppedOrReplaced ==
  \A rq \in Requests :
    LET available == getAvailableActions(game)
        after == playerAction(game, rq[1], rq[2])
        applied(type, amount) ==
          /\ Len(after.actions) = Len(game.actions) + 1
          /\ LastAction(after) =
               [playerId |-> game.players[game.activePlayerIndex].id,
                type |-> type, amount |-> amount, street |-> game.street]
    IN /\ Dropped(game, rq[1]) => after = game
       /\ (~Dropped(game, rq[1]) /\ rq[1] = ActCheck /\ ~available.canCheck)
            => applied(ActCall, available.callAmount)
       /\ (~Dropped(game, rq[1]) /\ rq[1] = ActFold /\ ~available.canFold)
            => applied(ActCheck, 0)
       /\ (~Dropped(game, rq[1]) /\ rq[1] = ActCall /\ ~available.canCall)
            => applied(ActCheck, 0)

\* C17 witness: a hand in progress whose active player faces a bet: the Bet
\* request is dropped and the Check request is applied as a Call.
C17_Witness ==
  /\ InProgress
  /\ Designated(game)
  /\ Outstanding(game) > 0
  /\ playerAction(game, ActBet, 1) = game
  /\ LastAction(playerAction(game, ActCheck, 0)).type = ActCall

\* The Bet and Raise requests, negative amounts included.
RaisingRequests == {ActBet, ActRaise} \X ((0 - 1)..MaxAmount)

\* C18: after any Bet or Raise accepted by playerAction, whatever the amount
\* requested, the table current bet is strictly greater than before, and
\* greater by at least the minimum raise increment in force unless the acting
\* player is all-in as a result.
C18_RaisesClampedToMinimum ==
  \A rq \in RaisingRequests :
    ~Dropped(game, rq[1]) =>
      LET after == playerAction(game, rq[1], rq[2])
      IN /\ after.currentBet > game.currentBet
         /\ \/ after.currentBet - game.currentBet >= game.minRaise
            \/ after.players[game.activePlayerIndex].isAllIn

\* C18 witness: a player who can raise and keep chips behind asks for a raise
\* of 1, below the minimum: the table bet goes up by exactly the minimum
\* raise increment and the player is not all-in.
C18_Witness ==
  /\ InProgress
  /\ ~Dropped(game, ActRaise)
  /\ game.minRaise > 1
  /\ LET after == playerAction(game, ActRaise, 1)
     IN /\ after.currentBet = game.currentBet + game.minRaise
        /\ ~after.players[game.activePlayerIndex].isAllIn

\* The step starts a new hand.
DealStep == game'.handNumber # game.handNumber

\* C19: createInitialGameState returns handNumber = 0 and isHandComplete =
\* true; every startNewHand increases handNumber by exactly 1 and yields
\* street = Preflop, isHandComplete = false, no community cards, no winners
\* and an action log of PostBlind records only; isHandComplete becomes true
\* again only through completeHand.
C19_HandLifeCycle ==
  /\ game.handNumber = 0 /\ game.isHandComplete
  /\ [][/\ DealStep =>
             /\ game'.handNumber = game.handNumber + 1
             /\ game'.street = Preflop
             /\ ~game'.isHandComplete
             /\ game'.communityCards = <<>>
             /\ game'.winners = <<>>
             /\ game'.actions # <<>>
             /\ \A i \in 1..Len(game'.actions) : game'.actions[i].type = PostBlind
        /\ (~game.isHandComplete /\ game'.isHandComplete) =>
             game' = completeHand(game)]_vars

\* C19 witness: the second hand just dealt, after a first hand that was
\* completed: the log holds the forced bets only, antes among them.
C19_Witness ==
  /\ game.handNumber = 2
  /\ ~game.isHandComplete
  /\ game.communityCards = <<>>
  /\ game.winners = <<>>
  /\ Len(game.actions) > 2
  /\ \A i \in 1..Len(game.actions) : game.actions[i].type = PostBlind

\* The states startNewHand can have been called on by a step from game: game
\* itself, or game after rebuyHero when the hero has no chips.
DealtFrom ==
  {game} \cup (IF game.handNumber > 0 /\ game.players[0].stack <= 0
               THEN {rebuyHero(game, settings)} ELSE {})

\* The forced bets of the records of player id in the log.
PostedBy(g, id) ==
  SumSeq([k \in 1..Len(g.actions) |->
            IF g.actions[k].playerId = id /\ g.actions[k].type = PostBlind
            THEN g.actions[k].amount ELSE 0])

\* The stack of seat i that startNewHand posts from: in cash mode an AI
\* player without chips is given the starting stack first.
StakeOf(pre, s, i) ==
  IF ~pre.players[i].isHuman /\ s.gameMode = "cash" /\ pre.players[i].stack <= 0
  THEN s.startingStack ELSE pre.players[i].stack

AntesOn(s) == s.gameMode = "tournament" /\ s.anteEnabled /\ s.anteBbTenths > 0

AnteNominal(s) == Max2(1, RoundTenths(s.bigBlind * s.anteBbTenths))

\* Every record of the log of the new hand is min(nominal, stack): the
\* antes of the players with chips in seat order, then the small and the big
\* blind, each taken from what the ante has left.
ForcedBetsCapped(pre, s, g, stake(_)) ==
  LET n == Len(g.actions)
      seats == SelectSeq([k \in 1..NumPlayers(pre.players) |-> k - 1],
                         LAMBDA i : stake(i) > 0)
      antes == IF AntesOn(s) THEN seats ELSE <<>>
      antePaid(id) ==
        IF AntesOn(s) /\ \E k \in 1..Len(seats) : pre.players[seats[k]].id = id
        THEN Min2(AnteNominal(s), stake(SeatOf(id))) ELSE 0
      sb == g.actions[n - 1]
      bb == g.actions[n]
  IN /\ n = Len(antes) + 2
     /\ \A k \in 1..Len(antes) :
          /\ g.actions[k].playerId = pre.players[antes[k]].id
          /\ g.actions[k].amount = Min2(AnteNominal(s), stake(antes[k]))
     /\ sb.playerId # bb.playerId
     /\ sb.amount = Min2(s.smallBlind,
                         stake(SeatOf(sb.playerId)) - antePaid(sb.playerId))
     /\ bb.amount = Min2(s.bigBlind,
                         stake(SeatOf(bb.playerId)) - antePaid(bb.playerId))

\* The per-hand fields of every player after startNewHand: two hole cards for
\* the players in the hand and none for the others, all-in only with an empty
\* stack.
PerHandFieldsReset(g) ==
  \A i \in DOMAIN g.players :
    /\ Len(g.players[i].holeCards) = (IF g.players[i].isFolded THEN 0 ELSE 2)
    /\ g.players[i].isAllIn => (g.players[i].stack = 0 /\ ~g.players[i].isFolded)

CardsOf(g) ==
  LET RECURSIVE holes(_)
      holes(i) == IF i \notin DOMAIN g.players THEN <<>>
                  ELSE g.players[i].holeCards \o holes(i + 1)
  IN holes(0) \o g.communityCards \o g.deck

IsSuffix(s, t) == Len(s) <= Len(t) /\ s = SubSeq(t, Len(t) - Len(s) + 1, Len(t))

\* C21: at every state of a hand the hole cards, the community cards and the
\* remaining deck are pairwise distinct cards of the 52-card deck; within a
\* hand cards leave the deck from the front only and never return: the deck
\* after a step is a suffix of the deck before, and the board grows by cards
\* of the part removed.
C21_CardsDealtOnce ==
  /\ [](game.handNumber > 0 =>
          LET cards == CardsOf(game)
          IN /\ \A i \in 1..Len(cards) : \E k \in 1..Len(createDeck) : createDeck[k] = cards[i]
             /\ \A i, j \in 1..Len(cards) : cards[i] = cards[j] => i = j)
  /\ [][game'.handNumber = game.handNumber =>
          /\ IsSuffix(game'.deck, game.deck)
          /\ \A i \in DOMAIN game.players :
               game'.players[i].holeCards = game.players[i].holeCards
          /\ SubSeq(game'.communityCards, 1, Len(game.communityCards))
               = game.communityCards
          /\ \A k \in (Len(game.communityCards) + 1)..Len(game'.communityCards) :
               \E d \in 1..(Len(game.deck) - Len(game'.deck)) :
                 game.deck[d] = game'.communityCards[k]]_vars

\* C21 witness: a hand completed after betting on the flop: five cards on
\* the board, six in the hands, and the 38 cards left after three burns.
C21_Witness ==
  /\ game.handNumber > 0
  /\ game.isHandComplete
  /\ Len(game.communityCards) = 5
  /\ Len(game.deck) = 38
  /\ \E i \in 1..Len(game.actions) : game.actions[i].street = Flop

(***************************************************************************)
(* Properties of calculatePots: the single pot.                            *)
(***************************************************************************)
\* No all-in player, folded or not, has contributed less than the maximum.
NoShortAllIn ==
  \A i \in DOMAIN game.players :
    game.players[i].isAllIn => Contribution(i) >= MaxContribution

SinglePotOfAll ==
  /\ Len(returned.value) = 1
  /\ returned.value[1].amount = TotalBets(Contributions)
  /\ Range(returned.value[1].eligiblePlayerIds) =
       {game.players[i].id : i \in {j \in DOMAIN game.players : Contender(j)}}

EvalReturned == returned.op = "evaluateHand"

CompareReturned == returned.op = "compareHands"

Evaluated == EvalReturned /\ ~returned.value.threw

\* The within-category score of a result: what its rank holds beyond the
\* weight of its category.
Tiebreak(result) == (0 - result.rank) - result.category * 1000000

\* C23: of two hands of different categories compareHands ranks the one of
\* the higher category as better (a negative result), whatever their ranks:
\* the within-category score of every evaluated hand is at least 0 and
\* smaller than 1,000,000, the weight between adjacent categories.
C23_CategoryDominates ==
  /\ Evaluated => Tiebreak(returned.value) \in 0..999999
  /\ CompareReturned =>
       \A i, j \in DOMAIN returned.hands :
         /\ Tiebreak(returned.results[i]) \in 0..999999
         /\ returned.results[i].category > returned.results[j].category
              => /\ returned.value[i][j] < 0
                 /\ returned.value[j][i] > 0

\* C23 witness: ace-king-queen-jack-nine, the high card hand with the largest
\* score there is, loses to a pair whose score is smaller.
C23_Witness ==
  /\ CompareReturned
  /\ returned.results[1].category = HighCard
  /\ Tiebreak(returned.results[1]) = 755499
  /\ returned.results[2].category = Pair
  /\ Tiebreak(returned.results[2]) < 755499
  /\ returned.value[1][2] > 0

RanksOf(cards) == {cards[i].rank : i \in 1..Len(cards)}

Suited(cards) == \A i \in 1..Len(cards) : cards[i].suit = cards[1].suit

IsWheel(cards) == Len(cards) = 5 /\ RanksOf(cards) = {Ace, 2, 3, 4, 5}

IsBroadway(cards) == Len(cards) = 5 /\ RanksOf(cards) = {10, 11, 12, 13, Ace}

\* Five cards of five consecutive ranks, the ace counting as the highest.
IsRun(cards) ==
  /\ Len(cards) = 5
  /\ Cardinality(RanksOf(cards)) = 5
  /\ SetMax(RanksOf(cards)) - 4 \in RanksOf(cards)
  /\ \A r \in RanksOf(cards) : r >= SetMax(RanksOf(cards)) - 4

WheelResult(cards, result) ==
  /\ result.category = IF Suited(cards) THEN StraightFlush ELSE Straight
  /\ Tiebreak(result) = 5
  /\ result.description =
       <<IF Suited(cards) THEN "Straight Flush, " ELSE "Straight, ", "Five", "-high">>

BroadwayResult(cards, result) ==
  /\ result.category = IF Suited(cards) THEN RoyalFlush ELSE Straight
  /\ Tiebreak(result) = Ace
  /\ ~Suited(cards) => result.description = <<"Straight, ", "Ace", "-high">>

\* C24: ace-two-three-four-five is a Straight, a Straight Flush when suited
\* and never a Royal Flush, of score five and described as Five-high; it
\* compares as strictly worse than six-five-four-three-two and than every
\* other straight of its category; ace-king-queen-jack-ten is ace-high, not
\* a wheel.
C24_WheelIsFiveHigh ==
  /\ Evaluated =>
       /\ IsWheel(returned.cards) => WheelResult(returned.cards, returned.value)
       /\ IsBroadway(returned.cards) => BroadwayResult(returned.cards, returned.value)
  /\ CompareReturned =>
       \A i, j \in DOMAIN returned.hands :
         IsWheel(returned.hands[i]) =>
           /\ WheelResult(returned.hands[i], returned.results[i])
           /\ (/\ IsRun(returned.hands[j])
               /\ returned.results[j].category = returned.results[i].category)
                => /\ returned.value[i][j] > 0
                   /\ returned.value[j][i] < 0

\* C24 witness: the wheel in mixed suits loses to six-five-four-three-two.
C24_Witness ==
  /\ CompareReturned
  /\ IsWheel(returned.hands[1])
  /\ returned.results[1].category = Straight
  /\ RanksOf(returned.hands[2]) = {2, 3, 4, 5, 6}
  /\ returned.results[2].category = Straight
  /\ returned.value[1][2] > 0

CardSet(cards) == {cards[i] : i \in 1..Len(cards)}

\* Five of the cards are of one suit.
HasFlush(cards) ==
  \E s \in {cards[i].suit : i \in 1..Len(cards)} :
    Cardinality({i \in 1..Len(cards) : cards[i].suit = s}) >= 5

\* C25: for six or seven cards evaluateHand returns five of them, with the
\* category and score those five have when evaluated alone, and no five of
\* the cards evaluate strictly better; ace to seven in mixed suits is a
\* seven-high straight, not the wheel.
C25_BestFiveCards ==
  (Evaluated /\ Len(returned.cards) \in {6, 7}) =>
    /\ Len(returned.value.cards) = 5
    /\ Cardinality(CardSet(returned.value.cards)) = 5
    /\ CardSet(returned.value.cards) \subseteq CardSet(returned.cards)
    /\ LET alone(result) ==
             /\ result.category = returned.value.category
             /\ Tiebreak(result) = Tiebreak(returned.value)
       IN alone(evaluateHand(returned.value.cards))
    /\ \A five \in CardLists(returned.cards, 5) :
         compareHands(evaluateHand(five), returned.value) >= 0
    /\ (RanksOf(returned.cards) = {Ace, 2, 3, 4, 5, 6, 7} /\ ~HasFlush(returned.cards))
         => /\ returned.value.category = Straight
            /\ Tiebreak(returned.value) = 7
            /\ returned.value.description = <<"Straight, ", "Seven", "-high">>

\* C25 witness: ace to seven in mixed suits, where the wheel is the first
\* straight among the combinations and the seven-high straight is returned.
C25_Witness ==
  /\ Evaluated
  /\ Len(returned.cards) = 7
  /\ RanksOf(returned.cards) = {Ace, 2, 3, 4, 5, 6, 7}
  /\ ~HasFlush(returned.cards)
  /\ IsWheel(SubSeq(returned.cards, 1, 5))
  /\ RanksOf(returned.value.cards) = {3, 4, 5, 6, 7}

Sign(x) == IF x < 0 THEN 0 - 1 ELSE IF x > 0 THEN 1 ELSE 0

\* How many cards of each rank.
RankCounts(cards) ==
  [r \in 2..Ace |-> Cardinality({i \in 1..Len(cards) : cards[i].rank = r})]

\* Two showdown hands of different hole cards on one board, each of which
\* plays the board.
BothPlayTheBoard(i, j) ==
  /\ Len(returned.hands[i]) = 7
  /\ Len(returned.hands[j]) = 7
  /\ SubSeq(returned.hands[i], 3, 7) = SubSeq(returned.hands[j], 3, 7)
  /\ CardSet(SubSeq(returned.hands[i], 1, 2)) \cap CardSet(SubSeq(returned.hands[j], 1, 2)) = {}
  /\ returned.results[i].cards = SubSeq(returned.hands[i], 3, 7)
  /\ returned.results[j].cards = SubSeq(returned.hands[j], 3, 7)

\* C26: compareHands is a total preorder on evaluation results: the two
\* orders of a pair give opposite signs, the order is transitive, and the
\* result is 0 exactly for results of the same category and score; two hands
\* of the same five ranks, neither a flush, tie whatever their suits, and so
\* do two players who both play the board.
C26_TotalPreorder ==
  CompareReturned =>
    \A i, j \in DOMAIN returned.hands :
      /\ Sign(returned.value[i][j]) = 0 - Sign(returned.value[j][i])
      /\ \A k \in DOMAIN returned.hands :
           (returned.value[i][j] <= 0 /\ returned.value[j][k] <= 0)
             => returned.value[i][k] <= 0
      /\ returned.value[i][j] = 0
           <=> /\ returned.results[i].category = returned.results[j].category
               /\ Tiebreak(returned.results[i]) = Tiebreak(returned.results[j])
      /\ (/\ Len(returned.hands[i]) = 5
          /\ Len(returned.hands[j]) = 5
          /\ RankCounts(returned.hands[i]) = RankCounts(returned.hands[j])
          /\ ~Suited(returned.hands[i])
          /\ ~Suited(returned.hands[j]))
           => returned.value[i][j] = 0
      /\ BothPlayTheBoard(i, j) => returned.value[i][j] = 0

\* C26 witness: of three hands the first two are wheels that differ in the
\* suit of a card and tie, and both beat the third.
C26_Witness ==
  /\ CompareReturned
  /\ Len(returned.hands) = 3
  /\ returned.hands[1] # returned.hands[2]
  /\ RankCounts(returned.hands[1]) = RankCounts(returned.hands[2])
  /\ returned.value[1][2] = 0
  /\ returned.value[2][3] < 0
  /\ returned.value[1][3] < 0

C28_CompleteRoundOnlyAdvances ==
  [][(InProgress /\ isBettingRoundComplete(game) /\ game' # game)
       => game' = advanceGame(game, settings)]_vars

(***************************************************************************)
(* Properties of progress.                                                 *)
(***************************************************************************)
\* The active player can act and is offered fold, check or call, and the
\* store applies a request of the player.
PlayerCanStep(g) ==
  /\ HasPlayer(g, g.activePlayerIndex)
  /\ ~g.players[g.activePlayerIndex].isFolded
  /\ ~g.players[g.activePlayerIndex].isAllIn
  /\ \/ getAvailableActions(g).canFold
     \/ getAvailableActions(g).canCheck
     \/ getAvailableActions(g).canCall
  /\ \E request \in Requests : playerAction(g, request[1], request[2]) # g

\* C29: no state of a hand in progress is stuck: either the betting round is
\* complete, and advanceGame advances the street or completes the hand, or
\* the active player is a non-folded, non-all-in player who is offered at
\* least one of fold, check and call.
C29_NoStuckState ==
  InProgress =>
    \/ isBettingRoundComplete(game) /\ advanceGame(game, settings) # game
    \/ PlayerCanStep(game)

\* C29 witness: the second hand of a tournament is in progress without a
\* player who busted in the first, and it is the turn of a player who faces
\* a bet.
C29_Witness ==
  /\ InProgress
  /\ game.handNumber = 2
  /\ \E i \in DOMAIN game.players :
       game.players[i].stack = 0 /\ game.players[i].holeCards = <<>>
  /\ ~isBettingRoundComplete(game)
  /\ getAvailableActions(game).canCall

CompletedHands(g) == IF g.isHandComplete THEN g.handNumber ELSE g.handNumber - 1

\* C31: each hand is finalised exactly once: after every step handsPlayed is
\* the number of completed hands and handHistory has one entry for each of
\* them, and a step taken from a completed hand that stays in that hand
\* changes no stack.
C31_FinalisedOnce ==
  [][/\ flow'.handsPlayed = CompletedHands(game')
     /\ flow'.handHistory = [i \in 1..CompletedHands(game') |-> i]
     /\ (game.isHandComplete /\ game'.handNumber = game.handNumber)
          => \A i \in DOMAIN game.players :
               game'.players[i].stack = game.players[i].stack]_vars


\* C32: an AI decision is applied only to the player and the game it was
\* computed for: when a callback of the AI timer calls playerAction, the
\* game of the store is the game of its closure and the active player of the
\* store is the player of its closure.
C32_DecisionForItsGame ==
  [][Len(flow'.aiInFlight) < Len(flow.aiInFlight)
       => /\ Head(flow.aiInFlight).game = game
          /\ HasPlayer(game, game.activePlayerIndex)
          /\ game.players[game.activePlayerIndex].id = Head(flow.aiInFlight).player]_vars


(***************************************************************************)
(* Properties of the bets of a street.                                     *)
(***************************************************************************)
\* C33: in every state of a hand no player's current-street bet exceeds the
\* table current bet, so the amount outstanding for the active player, which
\* getAvailableActions and the Call action compute, is not negative.
C33_NoBetAboveTableBet ==
  game.handNumber > 0 =>
    /\ \A i \in DOMAIN game.players : game.players[i].currentBet <= game.currentBet
    /\ getAvailableActions(game).callAmount >= 0


\* C33 witness: in a tournament hand with antes a player is all-in for less
\* than the table bet after a raise, and the active player can call.
C33_Witness ==
  /\ InProgress
  /\ AntesOn(settings)
  /\ \E i \in DOMAIN game.players :
       game.players[i].isAllIn /\ game.players[i].currentBet < game.currentBet
  /\ \E k \in DOMAIN game.actions : game.actions[k].type = ActRaise
  /\ getAvailableActions(game).canCall
  /\ getAvailableActions(game).callAmount > 0


(***************************************************************************)
(* Properties of executeAction: what it changes and what it logs.          *)
(***************************************************************************)
\* The step is a call of executeAction with a requested amount of 0 or more.
Executes == returned'.op = "executeAction" /\ returned'.amount >= 0

ChipsOf(players) ==
  SumSeq([i \in 1..NumPlayers(players) |->
            players[i - 1].stack + players[i - 1].totalBetThisHand])

\* C34: executeAction takes out of the acting player's stack exactly what it
\* adds to the player's current-street bet and to the player's cumulative
\* bet, nothing for Fold and Check, which change at most the folded flag; it
\* leaves every other player, the community cards and the deck as they are,
\* and the sum of stacks and cumulative bets is the same before and after.
C34_ExecuteActionFrame ==
  [][Executes =>
       LET idx == game.activePlayerIndex
           before == game.players[idx]
           after == game'.players[idx]
           moved == before.stack - after.stack
       IN /\ after.currentBet - before.currentBet = moved
          /\ after.totalBetThisHand - before.totalBetThisHand = moved
          /\ returned'.action \in {ActFold, ActCheck} =>
               /\ moved = 0
               /\ after = [before EXCEPT !.isFolded = after.isFolded]
          /\ \A j \in DOMAIN game.players \ {idx} : game'.players[j] = game.players[j]
          /\ game'.communityCards = game.communityCards
          /\ game'.deck = game.deck
          /\ ChipsOf(game'.players) = ChipsOf(game.players)]_vars

\* C34 witness: a Raise of more than the stack has moved the whole stack, 2
\* chips or more, into the bets.
C34_Witness ==
  /\ returned.op = "executeAction"
  /\ returned.action = ActRaise
  /\ game.actions[Len(game.actions)].amount >= 2
  /\ returned.amount > game.actions[Len(game.actions)].amount
  /\ game.players[game.activePlayerIndex].stack = 0


\* C35: a Raise, and an AllIn that takes the player's bet above the table
\* bet, set the table bet to the player's new bet and the minimum raise to
\* the larger of the previous minimum raise and the amount by which the new
\* bet exceeds the previous table bet; an AllIn that does not exceed the
\* table bet changes neither; so Raise and AllIn never lower the minimum
\* raise.
C35_RaiseSetsBetAndMinRaise ==
  [][Executes =>
       LET after == game'.players[game.activePlayerIndex]
           raises == \/ returned'.action = ActRaise
                     \/ returned'.action = ActAllIn /\ after.currentBet > game.currentBet
       IN /\ raises =>
               /\ game'.currentBet = after.currentBet
               /\ game'.minRaise =
                    Max2(game.minRaise, after.currentBet - game.currentBet)
          /\ (returned'.action = ActAllIn /\ after.currentBet <= game.currentBet) =>
               /\ game'.currentBet = game.currentBet
               /\ game'.minRaise = game.minRaise
          /\ returned'.action \in {ActRaise, ActAllIn} =>
               game'.minRaise >= game.minRaise]_vars

\* C35 witness: the first bet of the flop is an AllIn of more than the
\* minimum raise: the table bet is the player's bet and the minimum raise is
\* the amount by which it exceeds the table bet of 0.
C35_Witness ==
  /\ returned.op = "executeAction"
  /\ returned.action = ActAllIn
  /\ game.street = Flop
  /\ \A k \in 1..(Len(game.actions) - 1) :
       game.actions[k].type \in {PostBlind, ActFold, ActCheck, ActCall}
  /\ game.currentBet = game.players[game.activePlayerIndex].currentBet
  /\ game.minRaise > settings.bigBlind
  /\ game.minRaise = game.currentBet


\* The record a step has appended to the action log.
Logged == game'.actions[Len(game'.actions)]

\* C36: executeAction appends exactly one record to the action log: the id
\* of the acting player, the kind of the action, the street it was taken on
\* and the chips that left the stack, not the amount requested; the earlier
\* records stay as they are, in order.  Within a hand every step leaves the
\* log as it is or appends one such record, and no step but the start of a
\* hand, which leaves only the forced bets in the log, removes a record.
C36_LogGrowsByOneRecord ==
  [][/\ returned'.op = "executeAction" =>
          /\ Len(game'.actions) = Len(game.actions) + 1
          /\ Logged.type = returned'.action
     /\ game'.handNumber = game.handNumber =>
          \/ game'.actions = game.actions
          \/ /\ game'.actions = Append(game.actions, Logged)
             /\ Logged.playerId = game.players[game.activePlayerIndex].id
             /\ Logged.street = game.street
             /\ Logged.amount = game.players[game.activePlayerIndex].stack
                                  - game'.players[game.activePlayerIndex].stack
     /\ game'.handNumber # game.handNumber =>
          \A k \in DOMAIN game'.actions : game'.actions[k].type = PostBlind]_vars

\* C36 witness: the last record of the log is a Bet on the flop of fewer
\* chips than were requested, the player's whole stack.
C36_Witness ==
  /\ returned.op = "executeAction"
  /\ returned.action = ActBet
  /\ Len(game.actions) >= 5
  /\ game.actions[Len(game.actions)].type = ActBet
  /\ game.actions[Len(game.actions)].street = Flop
  /\ game.actions[Len(game.actions)].amount > 0
  /\ game.actions[Len(game.actions)].amount < returned.amount


(***************************************************************************)
(* Properties of advanceStreet.                                            *)
(***************************************************************************)
\* The deck without its first n cards.
DeckFrom(deck, n) == SubSeq(deck, n + 1, Len(deck))

\* C37: advanceStreet takes cards from the front of the deck only: from
\* Preflop to Flop it discards the first card and deals the next three, the
\* deck losing 4 cards; from Flop to Turn and from Turn to River it discards
\* one card and deals the next, the deck losing 2; from River to Showdown it
\* deals nothing and leaves the deck as it is; the community cards dealt
\* before stay as they are, in order.
C37_DeckFromTheFront ==
  [][game'.street # game.street =>
       CASE game.street = Preflop ->
              /\ game'.street = Flop
              /\ game'.communityCards =
                   game.communityCards \o <<game.deck[2], game.deck[3], game.deck[4]>>
              /\ game'.deck = DeckFrom(game.deck, 4)
              /\ Len(game'.deck) = Len(game.deck) - 4
         [] game.street \in {Flop, Turn} ->
              /\ game'.street = IF game.street = Flop THEN Turn ELSE River
              /\ game'.communityCards = game.communityCards \o <<game.deck[2]>>
              /\ game'.deck = DeckFrom(game.deck, 2)
              /\ Len(game'.deck) = Len(game.deck) - 2
         [] game.street = River ->
              /\ game'.street = Showdown
              /\ game'.communityCards = game.communityCards
              /\ game'.deck = game.deck
         [] OTHER -> FALSE]_vars

\* C37 witness: advanceStreet has been called four times on a hand of three
\* players: the street is Showdown, the board is the second to fourth, the
\* sixth and the eighth card of the deck after the deal, and 38 cards are
\* left.
C37_Witness ==
  /\ game.street = Showdown
  /\ game.communityCards =
       <<createDeck[8], createDeck[9], createDeck[10], createDeck[12], createDeck[14]>>
  /\ game.deck = DeckFrom(createDeck, 14)
  /\ Len(game.deck) = 38


\* The step is a call of advanceStreet: the street changes and the hand is
\* not completed.
Advances ==
  /\ game'.handNumber = game.handNumber
  /\ game'.street # game.street
  /\ ~game'.isHandComplete

\* C38: advanceStreet sets every player's current-street bet and the table
\* bet to 0 and leaves each player's stack, cumulative bet, flags and hole
\* cards and the action log as they are; the pots it recomputes have the
\* total the pots had before; and when the new street is not Showdown the
\* active player is the first seat after the dealer whose player is neither
\* folded nor all-in.
C38_AdvanceStreetFrame ==
  [][Advances =>
       /\ \A i \in DOMAIN game.players :
            game'.players[i] = [game.players[i] EXCEPT !.currentBet = 0]
       /\ game'.currentBet = 0
       /\ game'.actions = game.actions
       /\ totalPotSize(game'.pots) = totalPotSize(game.pots)
       /\ game'.street # Showdown =>
            game'.activePlayerIndex = NextToAct(game', game.dealerIndex)]_vars

\* C38 witness: the flop begins after a raise was called before it, and
\* the player in the seat after the dealer has folded or is all-in: the bets
\* of the street are 0, the pot holds the chips, and the player to act is
\* the next one round the table who is neither.
C38_Witness ==
  /\ InProgress
  /\ game.street = Flop
  /\ \A k \in DOMAIN game.actions : game.actions[k].street = Preflop
  /\ \E k \in DOMAIN game.actions : game.actions[k].type = ActRaise
  /\ (game.dealerIndex + 1) % NumPlayers(game.players) \notin CanAct(game)
  /\ game.currentBet = 0
  /\ \A i \in DOMAIN game.players : game.players[i].currentBet = 0
  /\ totalPotSize(game.pots) > 0
  /\ game.activePlayerIndex \in CanAct(game)
  /\ game.activePlayerIndex = NextToAct(game, game.dealerIndex)

(***************************************************************************)
(* Properties of the split of a pot at showdown.                           *)
(***************************************************************************)
\* The ranks of the hands the players show, by seat from the first, and -1
\* for a player who shows none.
RECURSIVE ShownRanks(_)
ShownRanks(n) ==
  IF n = 0 THEN <<>>
  ELSE LET p == game.players[n - 1]
       IN Append(ShownRanks(n - 1),
                 IF Shows(p.id) THEN evaluateHand(p.holeCards \o game.communityCards).rank
                 ELSE 0 - 1)

\* The rank, among these, of the player with this id.
RankOf(ranks, id) ==
  ranks[1 + CHOOSE i \in DOMAIN game.players : game.players[i].id = id]

\* The eligible players of the pot who show a hand no eligible player beats.
TiedBest(pot, ranks) ==
  LET showing == {id \in Range(pot.eligiblePlayerIds) : Shows(id)}
  IN {id \in showing :
        \A other \in showing :
          compareHands([rank |-> RankOf(ranks, id)], [rank |-> RankOf(ranks, other)]) <= 0}

\* The one of them who comes first in the pot's list of eligible players.
FirstTied(pot, ranks) ==
  pot.eligiblePlayerIds[CHOOSE k \in DOMAIN pot.eligiblePlayerIds :
                          /\ pot.eligiblePlayerIds[k] \in TiedBest(pot, ranks)
                          /\ \A m \in DOMAIN pot.eligiblePlayerIds :
                               pot.eligiblePlayerIds[m] \in TiedBest(pot, ranks) => k <= m]

\* What the pot owes the player: nothing outside the tied set, the floor of
\* the even split inside it, and the whole remainder on top for the first.
Award(pot, ranks, id) ==
  LET k == Cardinality(TiedBest(pot, ranks))
  IN IF id \notin TiedBest(pot, ranks) THEN 0
     ELSE (pot.amount \div k)
            + (IF id = FirstTied(pot, ranks)
               THEN pot.amount - k * (pot.amount \div k) ELSE 0)

RECURSIVE Awards(_, _, _)
Awards(pots, ranks, id) ==
  IF pots = <<>> THEN 0
  ELSE Award(Head(pots), ranks, id) + Awards(Tail(pots), ranks, id)

\* The chips the winners list gives the player.
Paid(winners, id) ==
  WinnersTotal(SelectSeq(winners, LAMBDA w : w.playerId = id))

\* Every player is paid what the pots owe them, and nobody else is listed.
PaidAsAwarded(winners, ranks) ==
  /\ \A i \in DOMAIN game.players :
       Paid(winners, game.players[i].id) = Awards(game.pots, ranks, game.players[i].id)
  /\ \A k \in DOMAIN winners :
       /\ winners[k].amount > 0
       /\ \E i \in DOMAIN game.players : game.players[i].id = winners[k].playerId

\* C39: resolveShowdown pays from each pot only the eligible players whose
\* hands tie for the best among the pot's eligible players: each of the k of
\* them gets floor(amount / k), and the remainder goes whole to the one who
\* comes first in the pot's eligibility order; a player's amount in the
\* winners list is the sum of this over the pots, and nobody else is listed.
C39_SplitPerPot ==
  (ShowdownReturned /\ Len(game.communityCards) = 5) =>
    PaidAsAwarded(returned.value.winners, ShownRanks(NumPlayers(game.players)))


\* A single pot of 5 for which the three players are eligible goes to two of
\* them, whose hands tie, and the player left out shows a worse hand and
\* comes first in the pot's eligibility order.
SplitLeavesOneOut(winners, ranks) ==
  /\ Len(game.pots) = 1
  /\ game.pots[1].amount = 5
  /\ Len(game.pots[1].eligiblePlayerIds) = 3
  /\ \A k \in 1..3 : Shows(game.pots[1].eligiblePlayerIds[k])
  /\ TiedBest(game.pots[1], ranks) = {game.pots[1].eligiblePlayerIds[2],
                                      game.pots[1].eligiblePlayerIds[3]}
  /\ winners = <<[playerId |-> game.pots[1].eligiblePlayerIds[2], amount |-> 3,
                  hand |-> winners[1].hand],
                 [playerId |-> game.pots[1].eligiblePlayerIds[3], amount |-> 2,
                  hand |-> winners[2].hand]>>

\* C39 witness: the pot of 5 is split 3 and 2 between the second and the
\* third eligible player, and the first, who loses, gets nothing.
C39_Witness ==
  /\ ShowdownReturned
  /\ Len(game.communityCards) = 5
  /\ Len(returned.value.winners) = 2
  /\ SplitLeavesOneOut(returned.value.winners, ShownRanks(NumPlayers(game.players)))

============================================================================
